---------------------------- MODULE Spec2Model ----------------------------
(***************************************************************************)
(* Model of the input-to-graph pipeline of the graph visualizer:           *)
(* validateNodes, validateGraphEdges, buildAdjacencyList, assignGroups and *)
(* formatEdges (graphParseHelper.js), run in that order by                 *)
(* updateGraphFromInput, which then numbers and colours the groups,        *)
(* compares the model with the one of graphState                           *)
(* (isGraphStructureChanged) and calls renderGraph; and of what calls it:   *)
(* the initial load, the change listeners of the two editors with their    *)
(* debounce timers (editorHelper.js) and the two toggles (app.js).         *)
(*                                                                         *)
(* A JavaScript string is a sequence of one-character strings, so that     *)
(* split, trim, the regular expressions and the template-literal keys are  *)
(* computed character by character.                                        *)
(***************************************************************************)
EXTENDS Integers, Sequences, FiniteSets, TLC

VARIABLES
    nodeText,        \* nodesEditor.getValue()
    edgeText,        \* edgesEditor.getValue()
    isDirected,      \* graphState.isDirected
    isWeighted,      \* graphState.isWeighted
    validNodes,      \* validateNodes(...).validNodes
    nodeErrors,      \* validateNodes(...).nodeErrors
    validEdges,      \* validateGraphEdges(...).validEdges
    edgeErrors,      \* validateGraphEdges(...).edgeErrors
    graph,           \* buildAdjacencyList(...)
    groupedNodes,    \* assignGroups(...), graphData.nodes
    links,           \* formatEdges(...), graphData.links
    allGroups,       \* the distinct groups of groupedNodes
    groupDisplayMap, \* group -> display number
    groupColorMap,   \* group -> colour, kept from cycle to cycle
    colorCounter,    \* colorCounter.index
    shouldZoom,      \* the parameter of updateGraphFromInput, then |= the change
    currentNodes,    \* graphState.currentNodes
    currentLinks,    \* graphState.currentLinks
    directedTrigger, \* graphTriggers.directedTrigger
    restarted,       \* the last renderGraph called simulation.alpha(1).restart()
    zoomScheduled,   \* the tick handler of the last renderGraph calls zoomToFit
    adjacency,       \* the neighbour sets the last renderGraph has built
    nodeInput,       \* nodes editor: change listeners and nodeInputState
    edgeInput,       \* edges editor: change listeners and edgeInputState
    nodePanel,       \* nodes editor: markers, annotations, nodes-error-msg
    edgePanel,       \* edges editor: markers, annotations, edges-error-msg
    loading,         \* the callback of the initial load is running
    pc               \* position inside updateGraphFromInput

\* The editors and the mode flags.
inputVars == <<nodeText, edgeText, isDirected, isWeighted>>

\* The locals of updateGraphFromInput up to graphData.
parseVars == <<validNodes, nodeErrors, validEdges, edgeErrors, graph,
               groupedNodes, links>>

\* The display groups and the colours.
groupVars == <<allGroups, groupDisplayMap, groupColorMap, colorCounter>>

\* What renderGraph leaves behind.
renderVars == <<currentNodes, currentLinks, directedTrigger, restarted,
                zoomScheduled, adjacency>>

\* The listeners and the timers of the two editors, and the load.
inputStateVars == <<nodeInput, edgeInput, loading>>

\* What the two panels show of the errors.
panelVars == <<nodePanel, edgePanel>>

vars == <<inputVars, parseVars, groupVars, shouldZoom, renderVars,
          inputStateVars, panelVars, pc>>

----------------------------------------------------------------------------
(* Characters *)

Upper == {"A","B","C","D","E","F","G","H","I","J","K","L","M",
          "N","O","P","Q","R","S","T","U","V","W","X","Y","Z"}

Lower == {"a","b","c","d","e","f","g","h","i","j","k","l","m",
          "n","o","p","q","r","s","t","u","v","w","x","y","z"}

Digit == {"0","1","2","3","4","5","6","7","8","9"}

\* The character class [a-zA-Z0-9_] of validRegex.
WordChar == Upper \cup Lower \cup Digit \cup {"_"}

\* The characters String.prototype.trim strips and \s matches (the ones a
\* text of the model can hold).
WhiteSpace == {" ", "\t", "\r", "\n", "\f"}

\* The word characters in UTF-16 code unit order, the order
\* Array.prototype.sort compares strings by.
CodeUnitOrder ==
    <<"0","1","2","3","4","5","6","7","8","9",
      "A","B","C","D","E","F","G","H","I","J","K","L","M",
      "N","O","P","Q","R","S","T","U","V","W","X","Y","Z",
      "_",
      "a","b","c","d","e","f","g","h","i","j","k","l","m",
      "n","o","p","q","r","s","t","u","v","w","x","y","z">>

CodeUnit(c) == CHOOSE i \in 1..Len(CodeUnitOrder) : CodeUnitOrder[i] = c

\* s < t as JavaScript compares two strings of word characters.
RECURSIVE StringLess(_, _)
StringLess(s, t) ==
    IF t = <<>> THEN FALSE
    ELSE IF s = <<>> THEN TRUE
    ELSE IF Head(s) = Head(t) THEN StringLess(Tail(s), Tail(t))
    ELSE CodeUnit(Head(s)) < CodeUnit(Head(t))

----------------------------------------------------------------------------
(* String operations *)

\* validRegex.test(s) with validRegex = /^[a-zA-Z0-9_]+$/
ValidRegexTest(s) == Len(s) >= 1 /\ \A i \in 1..Len(s) : s[i] \in WordChar

RECURSIVE TrimStart(_)
TrimStart(s) ==
    IF s # <<>> /\ Head(s) \in WhiteSpace THEN TrimStart(Tail(s)) ELSE s

RECURSIVE TrimEnd(_)
TrimEnd(s) ==
    IF s # <<>> /\ s[Len(s)] \in WhiteSpace
    THEN TrimEnd(SubSeq(s, 1, Len(s) - 1)) ELSE s

\* rawLine.trim()
Trim(s) == TrimEnd(TrimStart(s))

\* text.split('\n'): every "\n" separates two lines; the empty text is one
\* empty line.
RECURSIVE SplitLinesFrom(_, _, _, _)
SplitLinesFrom(s, i, cur, acc) ==
    IF i > Len(s) THEN Append(acc, cur)
    ELSE IF s[i] = "\n" THEN SplitLinesFrom(s, i + 1, <<>>, Append(acc, cur))
    ELSE SplitLinesFrom(s, i + 1, Append(cur, s[i]), acc)

SplitLines(s) == SplitLinesFrom(s, 1, <<>>, <<>>)

\* line.split(/\s+/): every maximal run of white space separates two parts.
RECURSIVE SplitSpaceFrom(_, _, _, _)
SplitSpaceFrom(s, i, cur, acc) ==
    IF i > Len(s) THEN Append(acc, cur)
    ELSE IF s[i] \in WhiteSpace
    THEN IF i > 1 /\ s[i - 1] \in WhiteSpace
         THEN SplitSpaceFrom(s, i + 1, cur, acc)
         ELSE SplitSpaceFrom(s, i + 1, <<>>, Append(acc, cur))
    ELSE SplitSpaceFrom(s, i + 1, Append(cur, s[i]), acc)

SplitSpace(s) == SplitSpaceFrom(s, 1, <<>>, <<>>)

\* lines.join('\n')
RECURSIVE JoinLines(_)
JoinLines(ls) ==
    IF ls = <<>> THEN <<>>
    ELSE IF Len(ls) = 1 THEN ls[1]
    ELSE ls[1] \o <<"\n">> \o JoinLines(Tail(ls))

\* Array.prototype.includes / Set.prototype.has, on a sequence.
Includes(seq, x) == \E i \in 1..Len(seq) : seq[i] = x

----------------------------------------------------------------------------
(* validateNodes *)

\* s.toLowerCase(), on word characters.
ToLowerCase(s) ==
    [i \in 1..Len(s) |-> IF s[i] \in Upper
                         THEN CodeUnitOrder[CodeUnit(s[i]) + 27] ELSE s[i]]

\* Mutant of NodeLineStep: the line is not trimmed.
NodeLineStep_NoTrim(acc, rawLine, i) ==
    LET line == rawLine IN
    IF Trim(line) = <<>> THEN acc
    ELSE IF ~ValidRegexTest(line)
    THEN [acc EXCEPT !.nodeErrors =
              Append(@, [line |-> i, reason |-> "Invalid node name"])]
    ELSE IF Includes(acc.nodeSet, line)
    THEN [acc EXCEPT !.nodeErrors =
              Append(@, [line |-> i, reason |-> "Duplicate node name"])]
    ELSE [acc EXCEPT !.nodeSet = Append(@, line)]

\* Mutant of NodeLineStep: identifiers are compared without their case.
NodeLineStep_IgnoreCase(acc, rawLine, i) ==
    LET line == Trim(rawLine) IN
    IF line = <<>> THEN acc
    ELSE IF ~ValidRegexTest(line)
    THEN [acc EXCEPT !.nodeErrors =
              Append(@, [line |-> i, reason |-> "Invalid node name"])]
    ELSE IF \E k \in 1..Len(acc.nodeSet) :
                ToLowerCase(acc.nodeSet[k]) = ToLowerCase(line)
    THEN [acc EXCEPT !.nodeErrors =
              Append(@, [line |-> i, reason |-> "Duplicate node name"])]
    ELSE [acc EXCEPT !.nodeSet = Append(@, line)]

\* Mutant of NodeLineStep: errors carry the 1-based number of the line.
NodeLineStep_OneBased(acc, rawLine, i) ==
    LET line == Trim(rawLine) IN
    IF line = <<>> THEN acc
    ELSE IF ~ValidRegexTest(line)
    THEN [acc EXCEPT !.nodeErrors =
              Append(@, [line |-> i + 1, reason |-> "Invalid node name"])]
    ELSE IF Includes(acc.nodeSet, line)
    THEN [acc EXCEPT !.nodeErrors =
              Append(@, [line |-> i + 1, reason |-> "Duplicate node name"])]
    ELSE [acc EXCEPT !.nodeSet = Append(@, line)]

\* One iteration of lines.forEach in validateNodes; i is the 0-based index.
NodeLineStep(acc, rawLine, i) ==
    LET line == Trim(rawLine) IN
    IF line = <<>> THEN acc
    ELSE IF ~ValidRegexTest(line)
    THEN [acc EXCEPT !.nodeErrors =
              Append(@, [line |-> i, reason |-> "Invalid node name"])]
    ELSE IF Includes(acc.nodeSet, line)
    THEN [acc EXCEPT !.nodeErrors =
              Append(@, [line |-> i, reason |-> "Duplicate node name"])]
    ELSE [acc EXCEPT !.nodeSet = Append(@, line)]

RECURSIVE NodeLinesFrom(_, _, _)
NodeLinesFrom(lines, i, acc) ==
    IF i > Len(lines) THEN acc
    ELSE NodeLinesFrom(lines, i + 1, NodeLineStep(acc, lines[i], i - 1))

\* nodeSet is a Set: it iterates in insertion order, so it is kept as a
\* sequence without repetition.
validateNodes(text) ==
    LET r == NodeLinesFrom(SplitLines(text), 1,
                           [nodeSet |-> <<>>, nodeErrors |-> <<>>])
    IN [validNodes |-> r.nodeSet, nodeErrors |-> r.nodeErrors]

----------------------------------------------------------------------------
(* validateGraphEdges *)

DigitValue(c) == CodeUnit(c) - 1

RECURSIVE DecimalValue(_)
DecimalValue(s) ==
    IF s = <<>> THEN 0
    ELSE 10 * DecimalValue(SubSeq(s, 1, Len(s) - 1)) + DigitValue(s[Len(s)])

IsDigits(s) == Len(s) >= 1 /\ \A i \in 1..Len(s) : s[i] \in Digit

\* Number(wRaw) for a part of an edge line: an optionally signed run of
\* decimal digits is its value, any other part of the model's texts is NaN.
\* (Number also reads fractions, exponents, radix prefixes and Infinity.)
Number(s) ==
    IF IsDigits(s) THEN [isNaN |-> FALSE, value |-> DecimalValue(s)]
    ELSE IF Len(s) >= 2 /\ s[1] = "+" /\ IsDigits(Tail(s))
    THEN [isNaN |-> FALSE, value |-> DecimalValue(Tail(s))]
    ELSE IF Len(s) >= 2 /\ s[1] = "-" /\ IsDigits(Tail(s))
    THEN [isNaN |-> FALSE, value |-> 0 - DecimalValue(Tail(s))]
    ELSE [isNaN |-> TRUE, value |-> 0]

\* Mutant of EdgeKey: the names are sorted in directed mode too.
EdgeKey_AlwaysSorted(u, v, directed) ==
    IF StringLess(v, u) THEN v \o <<"-", "-">> \o u
    ELSE u \o <<"-", "-">> \o v

\* Mutant of EdgeKey: the names are joined unsorted in undirected mode.
EdgeKey_Unsorted(u, v, directed) ==
    IF directed THEN u \o <<"-", ">">> \o v
    ELSE u \o <<"-", "-">> \o v

\* Mutant of EdgeKey: the two modes are exchanged.
EdgeKey_ModesExchanged(u, v, directed) ==
    IF ~directed THEN u \o <<"-", ">">> \o v
    ELSE IF StringLess(v, u) THEN v \o <<"-", "-">> \o u
    ELSE u \o <<"-", "-">> \o v

\* The key of seenEdges: `${u}->${v}` in directed mode,
\* [u, v].sort().join('--') otherwise.
EdgeKey(u, v, directed) ==
    IF directed THEN u \o <<"-", ">">> \o v
    ELSE IF StringLess(v, u) THEN v \o <<"-", "-">> \o u
    ELSE u \o <<"-", "-">> \o v

EdgeError(acc, i, reason) ==
    [acc EXCEPT !.edgeErrors = Append(@, [line |-> i, reason |-> reason])]

\* Mutant of EdgeLineStep: the names are not looked up in validNodes.
EdgeLineStep_NoExistenceCheck(acc, rawLine, i, nodes, directed, weighted) ==
    LET line  == Trim(rawLine)
        parts == SplitSpace(line)
        u     == parts[1]
        v     == parts[2]
        given == Len(parts) >= 3          \* wRaw !== undefined
        num   == Number(parts[3])
        key   == EdgeKey(u, v, directed)
    IN
    IF line = <<>> THEN acc
    ELSE IF weighted /\ (Len(parts) < 2 \/ Len(parts) > 3)
    THEN EdgeError(acc, i, "Edge must have 2 nodes with an optional weight")
    ELSE IF ~weighted /\ Len(parts) # 2
    THEN EdgeError(acc, i, "Edge must have exactly 2 nodes")
    ELSE IF ~ValidRegexTest(u) \/ ~ValidRegexTest(v)
    THEN EdgeError(acc, i, "Invalid node name in edge")
    ELSE IF given /\ num.isNaN
    THEN EdgeError(acc, i, "Invalid weight (must be a number)")
    ELSE IF key \in acc.seenEdges
    THEN EdgeError(acc, i, "Duplicate edge")
    ELSE [acc EXCEPT !.seenEdges = @ \cup {key},
                     !.edges = Append(@, <<u, v, IF given THEN num.value ELSE 1>>)]

\* Mutant of EdgeLineStep: the weight is parsed before the names are looked up.
EdgeLineStep_WeightBeforeExistence(acc, rawLine, i, nodes, directed, weighted) ==
    LET line  == Trim(rawLine)
        parts == SplitSpace(line)
        u     == parts[1]
        v     == parts[2]
        given == Len(parts) >= 3          \* wRaw !== undefined
        num   == Number(parts[3])
        key   == EdgeKey(u, v, directed)
    IN
    IF line = <<>> THEN acc
    ELSE IF weighted /\ (Len(parts) < 2 \/ Len(parts) > 3)
    THEN EdgeError(acc, i, "Edge must have 2 nodes with an optional weight")
    ELSE IF ~weighted /\ Len(parts) # 2
    THEN EdgeError(acc, i, "Edge must have exactly 2 nodes")
    ELSE IF ~ValidRegexTest(u) \/ ~ValidRegexTest(v)
    THEN EdgeError(acc, i, "Invalid node name in edge")
    ELSE IF given /\ num.isNaN
    THEN EdgeError(acc, i, "Invalid weight (must be a number)")
    ELSE IF ~Includes(nodes, u) \/ ~Includes(nodes, v)
    THEN EdgeError(acc, i, "Node in edge does not exist")
    ELSE IF key \in acc.seenEdges
    THEN EdgeError(acc, i, "Duplicate edge")
    ELSE [acc EXCEPT !.seenEdges = @ \cup {key},
                     !.edges = Append(@, <<u, v, IF given THEN num.value ELSE 1>>)]

\* Mutant of EdgeLineStep: the duplicate check comes before the weight is parsed.
EdgeLineStep_DuplicateBeforeWeight(acc, rawLine, i, nodes, directed, weighted) ==
    LET line  == Trim(rawLine)
        parts == SplitSpace(line)
        u     == parts[1]
        v     == parts[2]
        given == Len(parts) >= 3          \* wRaw !== undefined
        num   == Number(parts[3])
        key   == EdgeKey(u, v, directed)
    IN
    IF line = <<>> THEN acc
    ELSE IF weighted /\ (Len(parts) < 2 \/ Len(parts) > 3)
    THEN EdgeError(acc, i, "Edge must have 2 nodes with an optional weight")
    ELSE IF ~weighted /\ Len(parts) # 2
    THEN EdgeError(acc, i, "Edge must have exactly 2 nodes")
    ELSE IF ~ValidRegexTest(u) \/ ~ValidRegexTest(v)
    THEN EdgeError(acc, i, "Invalid node name in edge")
    ELSE IF ~Includes(nodes, u) \/ ~Includes(nodes, v)
    THEN EdgeError(acc, i, "Node in edge does not exist")
    ELSE IF key \in acc.seenEdges
    THEN EdgeError(acc, i, "Duplicate edge")
    ELSE IF given /\ num.isNaN
    THEN EdgeError(acc, i, "Invalid weight (must be a number)")
    ELSE [acc EXCEPT !.seenEdges = @ \cup {key},
                     !.edges = Append(@, <<u, v, IF given THEN num.value ELSE 1>>)]

\* Mutant of EdgeLineStep: the weight given on the line is not kept.
EdgeLineStep_WeightIgnored(acc, rawLine, i, nodes, directed, weighted) ==
    LET line  == Trim(rawLine)
        parts == SplitSpace(line)
        u     == parts[1]
        v     == parts[2]
        given == Len(parts) >= 3          \* wRaw !== undefined
        num   == Number(parts[3])
        key   == EdgeKey(u, v, directed)
    IN
    IF line = <<>> THEN acc
    ELSE IF weighted /\ (Len(parts) < 2 \/ Len(parts) > 3)
    THEN EdgeError(acc, i, "Edge must have 2 nodes with an optional weight")
    ELSE IF ~weighted /\ Len(parts) # 2
    THEN EdgeError(acc, i, "Edge must have exactly 2 nodes")
    ELSE IF ~ValidRegexTest(u) \/ ~ValidRegexTest(v)
    THEN EdgeError(acc, i, "Invalid node name in edge")
    ELSE IF ~Includes(nodes, u) \/ ~Includes(nodes, v)
    THEN EdgeError(acc, i, "Node in edge does not exist")
    ELSE IF given /\ num.isNaN
    THEN EdgeError(acc, i, "Invalid weight (must be a number)")
    ELSE IF key \in acc.seenEdges
    THEN EdgeError(acc, i, "Duplicate edge")
    ELSE [acc EXCEPT !.seenEdges = @ \cup {key},
                     !.edges = Append(@, <<u, v, 1>>)]

\* Mutant of EdgeLineStep: the names are looked up in validNodes before they
\* are matched against validRegex.
EdgeLineStep_ExistenceBeforeNames(acc, rawLine, i, nodes, directed, weighted) ==
    LET line  == Trim(rawLine)
        parts == SplitSpace(line)
        u     == parts[1]
        v     == parts[2]
        given == Len(parts) >= 3          \* wRaw !== undefined
        num   == Number(parts[3])
        key   == EdgeKey(u, v, directed)
    IN
    IF line = <<>> THEN acc
    ELSE IF weighted /\ (Len(parts) < 2 \/ Len(parts) > 3)
    THEN EdgeError(acc, i, "Edge must have 2 nodes with an optional weight")
    ELSE IF ~weighted /\ Len(parts) # 2
    THEN EdgeError(acc, i, "Edge must have exactly 2 nodes")
    ELSE IF ~Includes(nodes, u) \/ ~Includes(nodes, v)
    THEN EdgeError(acc, i, "Node in edge does not exist")
    ELSE IF ~ValidRegexTest(u) \/ ~ValidRegexTest(v)
    THEN EdgeError(acc, i, "Invalid node name in edge")
    ELSE IF given /\ num.isNaN
    THEN EdgeError(acc, i, "Invalid weight (must be a number)")
    ELSE IF key \in acc.seenEdges
    THEN EdgeError(acc, i, "Duplicate edge")
    ELSE [acc EXCEPT !.seenEdges = @ \cup {key},
                     !.edges = Append(@, <<u, v, IF given THEN num.value ELSE 1>>)]

\* Mutant of EdgeLineStep: the key of the edge is not looked up in seenEdges.
EdgeLineStep_NoDuplicateCheck(acc, rawLine, i, nodes, directed, weighted) ==
    LET line  == Trim(rawLine)
        parts == SplitSpace(line)
        u     == parts[1]
        v     == parts[2]
        given == Len(parts) >= 3          \* wRaw !== undefined
        num   == Number(parts[3])
        key   == EdgeKey(u, v, directed)
    IN
    IF line = <<>> THEN acc
    ELSE IF weighted /\ (Len(parts) < 2 \/ Len(parts) > 3)
    THEN EdgeError(acc, i, "Edge must have 2 nodes with an optional weight")
    ELSE IF ~weighted /\ Len(parts) # 2
    THEN EdgeError(acc, i, "Edge must have exactly 2 nodes")
    ELSE IF ~ValidRegexTest(u) \/ ~ValidRegexTest(v)
    THEN EdgeError(acc, i, "Invalid node name in edge")
    ELSE IF ~Includes(nodes, u) \/ ~Includes(nodes, v)
    THEN EdgeError(acc, i, "Node in edge does not exist")
    ELSE IF given /\ num.isNaN
    THEN EdgeError(acc, i, "Invalid weight (must be a number)")
    ELSE [acc EXCEPT !.seenEdges = @ \cup {key},
                     !.edges = Append(@, <<u, v, IF given THEN num.value ELSE 1>>)]

\* One iteration of lines.forEach in validateGraphEdges; i is the 0-based
\* index.
EdgeLineStep(acc, rawLine, i, nodes, directed, weighted) ==
    LET line  == Trim(rawLine)
        parts == SplitSpace(line)
        u     == parts[1]
        v     == parts[2]
        given == Len(parts) >= 3          \* wRaw !== undefined
        num   == Number(parts[3])
        key   == EdgeKey(u, v, directed)
    IN
    IF line = <<>> THEN acc
    ELSE IF weighted /\ (Len(parts) < 2 \/ Len(parts) > 3)
    THEN EdgeError(acc, i, "Edge must have 2 nodes with an optional weight")
    ELSE IF ~weighted /\ Len(parts) # 2
    THEN EdgeError(acc, i, "Edge must have exactly 2 nodes")
    ELSE IF ~ValidRegexTest(u) \/ ~ValidRegexTest(v)
    THEN EdgeError(acc, i, "Invalid node name in edge")
    ELSE IF ~Includes(nodes, u) \/ ~Includes(nodes, v)
    THEN EdgeError(acc, i, "Node in edge does not exist")
    ELSE IF given /\ num.isNaN
    THEN EdgeError(acc, i, "Invalid weight (must be a number)")
    ELSE IF key \in acc.seenEdges
    THEN EdgeError(acc, i, "Duplicate edge")
    ELSE [acc EXCEPT !.seenEdges = @ \cup {key},
                     !.edges = Append(@, <<u, v, IF given THEN num.value ELSE 1>>)]

\* Mutant of EdgeLinesFrom: the first error ends the parse.
RECURSIVE EdgeLinesFrom_StopAtError(_, _, _, _, _, _)
EdgeLinesFrom_StopAtError(lines, i, acc, nodes, directed, weighted) ==
    IF i > Len(lines) \/ acc.edgeErrors # <<>> THEN acc
    ELSE EdgeLinesFrom_StopAtError(lines, i + 1,
                       EdgeLineStep(acc, lines[i], i - 1, nodes, directed, weighted),
                       nodes, directed, weighted)

RECURSIVE EdgeLinesFrom(_, _, _, _, _, _)
EdgeLinesFrom(lines, i, acc, nodes, directed, weighted) ==
    IF i > Len(lines) THEN acc
    ELSE EdgeLinesFrom(lines, i + 1,
                       EdgeLineStep(acc, lines[i], i - 1, nodes, directed, weighted),
                       nodes, directed, weighted)

validateGraphEdges(text, nodes, directed, weighted) ==
    LET r == EdgeLinesFrom(SplitLines(text), 1,
                           [edges |-> <<>>, edgeErrors |-> <<>>, seenEdges |-> {}],
                           nodes, directed, weighted)
    IN [validEdges |-> r.edges, edgeErrors |-> r.edgeErrors]

----------------------------------------------------------------------------
(* Plain objects used as maps: graph, parent and size are created by {} and *)
(* read and written by obj[key].  An object is its own properties and its   *)
(* prototype.  The key "__proto__" is the accessor inherited from           *)
(* Object.prototype: reading it yields the prototype, writing an object to  *)
(* it replaces the prototype, writing a primitive to it does nothing.       *)

\* Two values that are no strings: each is a one-element sequence holding a
\* word, and so differs from every string, a sequence of single characters.
ObjectPrototype == <<"Object.prototype">>
Undefined == <<"undefined">>

ProtoKey == <<"_","_","p","r","o","t","o","_","_">>

\* String(v), the property key obj[v] reads or writes.
ToPropertyKey(v) ==
    IF v = Undefined THEN <<"u","n","d","e","f","i","n","e","d">>
    ELSE IF v = ObjectPrototype
    THEN <<"[","o","b","j","e","c","t"," ","O","b","j","e","c","t","]">>
    ELSE v

\* {}
EmptyObject == [own |-> [k \in {} |-> Undefined], proto |-> ObjectPrototype]

HasOwn(obj, k) == k \in DOMAIN obj.own

\* obj[k].  (Of the properties Object.prototype holds, only __proto__ is
\* read before an own property of that name is written.)
Get(obj, k) ==
    IF k = ProtoKey THEN obj.proto
    ELSE IF HasOwn(obj, k) THEN obj.own[k]
    ELSE Undefined

DefineOwn(obj, k, v) ==
    [obj EXCEPT !.own = [x \in (DOMAIN obj.own) \cup {k} |->
                            IF x = k THEN v ELSE obj.own[x]]]

\* obj[k] = v for a primitive v (a string, a number, undefined).
SetPrimitive(obj, k, v) ==
    IF k = ProtoKey THEN obj ELSE DefineOwn(obj, k, v)

\* obj[k] = v for an object v (an array, Object.prototype).
SetObject(obj, k, v) ==
    IF k = ProtoKey THEN [obj EXCEPT !.proto = v] ELSE DefineOwn(obj, k, v)

----------------------------------------------------------------------------
(* buildAdjacencyList *)

RECURSIVE InitNeighbors(_, _, _)
InitNeighbors(nodes, i, g) ==
    IF i > Len(nodes) THEN g
    ELSE InitNeighbors(nodes, i + 1, SetObject(g, nodes[i], <<>>))

\* graph[u].push(entry): the array graph[u] is changed where it is held.
Push(g, u, entry) == SetObject(g, u, Append(Get(g, u), entry))

AddEdge(g, e, directed) ==
    LET g1 == Push(g, e[1], [node |-> e[2], weight |-> e[3]])
    IN IF ~directed THEN Push(g1, e[2], [node |-> e[1], weight |-> e[3]])
       ELSE g1

RECURSIVE FillNeighbors(_, _, _, _)
FillNeighbors(edges, i, g, directed) ==
    IF i > Len(edges) THEN g
    ELSE FillNeighbors(edges, i + 1, AddEdge(g, edges[i], directed), directed)

buildAdjacencyList(nodes, edges, directed) ==
    FillNeighbors(edges, 1, InitNeighbors(nodes, 1, EmptyObject), directed)

----------------------------------------------------------------------------
(* assignGroups *)

\* A number of the size object; NaN is the result of arithmetic on undefined.
NaN == [isNaN |-> TRUE, value |-> 0]
Num(n) == [isNaN |-> FALSE, value |-> n]

\* size[v] read as a number: undefined and Object.prototype convert to NaN.
SizeOf(size, v) ==
    LET k == ToPropertyKey(v) IN
    IF k # ProtoKey /\ HasOwn(size, k) THEN size.own[k] ELSE NaN

\* a < b: false as soon as one side is NaN.
NumLess(a, b) == ~a.isNaN /\ ~b.isNaN /\ a.value < b.value

NumAdd(a, b) == IF a.isNaN \/ b.isNaN THEN NaN ELSE Num(a.value + b.value)

\* parent[k] = v
SetParent(parent, k, v) ==
    IF v = ObjectPrototype THEN SetObject(parent, k, v)
    ELSE SetPrimitive(parent, k, v)

RECURSIVE InitSets(_, _, _)
InitSets(nodes, i, st) ==
    IF i > Len(nodes) THEN st
    ELSE InitSets(nodes, i + 1,
                  [st EXCEPT !.parent = SetParent(st.parent, nodes[i], nodes[i]),
                             !.size = SetPrimitive(st.size, nodes[i], Num(1))])

\* The walk find(u) makes down the parent links before it returns: it
\* writes nothing on the way down, so a walk that comes back to a value it
\* has passed never ends, and the call ends in a RangeError (the call stack
\* is exhausted).
RECURSIVE Overflows(_, _, _)
Overflows(parent, u, passed) ==
    LET next == Get(parent, ToPropertyKey(u)) IN
    IF next = u THEN FALSE
    ELSE IF u \in passed THEN TRUE
    ELSE Overflows(parent, next, passed \cup {u})

\* find(u) with its path compression, for a call that returns: the parent
\* object after the call and the value returned, which is parent[u] read
\* again after the assignment.
RECURSIVE find(_, _)
find(parent, u) ==
    LET k == ToPropertyKey(u) IN
    IF Get(parent, k) # u
    THEN LET r  == find(parent, Get(parent, k))
             p2 == SetParent(r.parent, k, r.root)
         IN [parent |-> p2, root |-> Get(p2, k)]
    ELSE [parent |-> parent, root |-> Get(parent, k)]

\* union(u, v); threw: a find of it ended in the RangeError.
union(st, u, v) ==
    IF Overflows(st.parent, u, {}) THEN [st EXCEPT !.threw = TRUE]
    ELSE
    LET f1 == find(st.parent, u)
        pu == f1.root
    IN
    IF Overflows(f1.parent, v, {}) THEN [st EXCEPT !.threw = TRUE]
    ELSE
    LET f2 == find(f1.parent, v)
        pv == f2.root
        p  == f2.parent
        su == SizeOf(st.size, pu)
        sv == SizeOf(st.size, pv)
    IN
    IF pu = pv THEN [st EXCEPT !.parent = p]
    ELSE IF NumLess(su, sv)
    THEN [st EXCEPT !.parent = SetParent(p, ToPropertyKey(pu), pv),
                    !.size = SetPrimitive(st.size, ToPropertyKey(pv), NumAdd(sv, su))]
    ELSE [st EXCEPT !.parent = SetParent(p, ToPropertyKey(pv), pu),
                    !.size = SetPrimitive(st.size, ToPropertyKey(pu), NumAdd(su, sv))]

RECURSIVE UnionNeighbors(_, _, _, _)
UnionNeighbors(u, neighbors, j, st) ==
    IF j > Len(neighbors) \/ st.threw THEN st
    ELSE UnionNeighbors(u, neighbors, j + 1, union(st, u, neighbors[j].node))

RECURSIVE UnionAll(_, _, _, _)
UnionAll(nodes, g, i, st) ==
    IF i > Len(nodes) \/ st.threw THEN st
    ELSE UnionAll(nodes, g, i + 1,
                  UnionNeighbors(nodes[i], Get(g, nodes[i]), 1, st))

RECURSIVE MapGroups(_, _, _, _)
MapGroups(nodes, i, parent, result) ==
    IF i > Len(nodes) THEN [threw |-> FALSE, result |-> result]
    ELSE IF Overflows(parent, nodes[i], {}) THEN [threw |-> TRUE, result |-> <<>>]
    ELSE LET f == find(parent, nodes[i])
         IN MapGroups(nodes, i + 1, f.parent,
                      Append(result, [id |-> nodes[i], group |-> f.root]))

\* The parent and size objects once every edge has been united.
UnitedSets(nodes, g) ==
    UnionAll(nodes, g, 1,
             InitSets(nodes, 1, [parent |-> EmptyObject, size |-> EmptyObject,
                                 threw |-> FALSE]))

\* assignGroups(validNodes, graph): the array it returns, or threw when it
\* ends in the RangeError of a find.
assignGroups(nodes, g) ==
    LET st == UnitedSets(nodes, g) IN
    IF st.threw THEN [threw |-> TRUE, result |-> <<>>]
    ELSE MapGroups(nodes, 1, st.parent, <<>>)

----------------------------------------------------------------------------
(* formatEdges *)

\* `${a}->${b}`
PairKey(a, b) == a \o <<"-", ">">> \o b

\* result.find(e => e.source === target && e.target === source), as an index
\* (0: not found).
FindPrev(result, source, target) ==
    LET hits == {j \in 1..Len(result) :
                    result[j].source = target /\ result[j].target = source}
    IN IF hits = {} THEN 0 ELSE CHOOSE j \in hits : \A h \in hits : j <= h

\* Mutant of FormatStep: the earlier reverse link is left as it was emitted.
FormatStep_NoRetroMark(acc, e) ==
    LET source  == e[1]
        target  == e[2]
        reverse == PairKey(target, source) \in acc.edgePairs
    IN [edgePairs |-> acc.edgePairs \cup {PairKey(source, target)},
        result    |-> Append(acc.result,
                             [source |-> source, target |-> target, value |-> e[3],
                              curved |-> reverse,
                              direction |-> IF reverse THEN 1 ELSE 0])]

\* Mutant of FormatStep: the two directions are exchanged.
FormatStep_SwappedDirections(acc, e) ==
    LET source  == e[1]
        target  == e[2]
        reverse == PairKey(target, source) \in acc.edgePairs
        prev    == FindPrev(acc.result, source, target)
        marked  == IF reverse /\ prev # 0
                   THEN [acc.result EXCEPT ![prev].curved = TRUE,
                                           ![prev].direction = 1]
                   ELSE acc.result
    IN [edgePairs |-> acc.edgePairs \cup {PairKey(source, target)},
        result    |-> Append(marked,
                             [source |-> source, target |-> target, value |-> e[3],
                              curved |-> reverse,
                              direction |-> IF reverse THEN -1 ELSE 0])]

\* Mutant of FormatStep: the key of the edge is added to edgePairs before
\* the reverse key is looked up.
FormatStep_AddsKeyFirst(acc, e) ==
    LET source  == e[1]
        target  == e[2]
        pairs   == acc.edgePairs \cup {PairKey(source, target)}
        reverse == PairKey(target, source) \in pairs
        prev    == FindPrev(acc.result, source, target)
        marked  == IF reverse /\ prev # 0
                   THEN [acc.result EXCEPT ![prev].curved = TRUE,
                                           ![prev].direction = -1]
                   ELSE acc.result
    IN [edgePairs |-> pairs,
        result    |-> Append(marked,
                             [source |-> source, target |-> target, value |-> e[3],
                              curved |-> reverse,
                              direction |-> IF reverse THEN 1 ELSE 0])]

FormatStep(acc, e) ==
    LET source  == e[1]
        target  == e[2]
        reverse == PairKey(target, source) \in acc.edgePairs
        prev    == FindPrev(acc.result, source, target)
        marked  == IF reverse /\ prev # 0
                   THEN [acc.result EXCEPT ![prev].curved = TRUE,
                                           ![prev].direction = -1]
                   ELSE acc.result
    IN [edgePairs |-> acc.edgePairs \cup {PairKey(source, target)},
        result    |-> Append(marked,
                             [source |-> source, target |-> target, value |-> e[3],
                              curved |-> reverse,
                              direction |-> IF reverse THEN 1 ELSE 0])]

RECURSIVE FormatFrom(_, _, _)
FormatFrom(edges, i, acc) ==
    IF i > Len(edges) THEN acc
    ELSE FormatFrom(edges, i + 1, FormatStep(acc, edges[i]))

formatEdges(edges) ==
    FormatFrom(edges, 1, [edgePairs |-> {}, result |-> <<>>]).result

----------------------------------------------------------------------------
(* The display groups and the colours of updateGraphFromInput *)

\* The names Object.prototype holds: obj[k] and k in obj find them on every
\* object created by {}.
ObjectPrototypeKeys ==
    { ProtoKey,
      <<"c","o","n","s","t","r","u","c","t","o","r">>,
      <<"h","a","s","O","w","n","P","r","o","p","e","r","t","y">>,
      <<"i","s","P","r","o","t","o","t","y","p","e","O","f">>,
      <<"p","r","o","p","e","r","t","y","I","s","E","n","u","m","e","r","a","b","l","e">>,
      <<"t","o","L","o","c","a","l","e","S","t","r","i","n","g">>,
      <<"t","o","S","t","r","i","n","g">>,
      <<"v","a","l","u","e","O","f">>,
      <<"_","_","d","e","f","i","n","e","G","e","t","t","e","r","_","_">>,
      <<"_","_","d","e","f","i","n","e","S","e","t","t","e","r","_","_">>,
      <<"_","_","l","o","o","k","u","p","G","e","t","t","e","r","_","_">>,
      <<"_","_","l","o","o","k","u","p","S","e","t","t","e","r","_","_">> }

\* k in obj
In(obj, k) ==
    HasOwn(obj, k) \/ (obj.proto = ObjectPrototype /\ k \in ObjectPrototypeKeys)

\* [...new Set(values)]: every value once, in the order of its first
\* occurrence.
RECURSIVE Distinct(_, _, _)
Distinct(values, i, acc) ==
    IF i > Len(values) THEN acc
    ELSE Distinct(values, i + 1,
                  IF Includes(acc, values[i]) THEN acc ELSE Append(acc, values[i]))

\* [...new Set(groupedNodes.map(d => d.group))]
GroupsOf(nodes) == Distinct([k \in 1..Len(nodes) |-> nodes[k].group], 1, <<>>)

\* myColors holds the eleven colours of initColorPalette; a colour is its
\* place in myColors.
PaletteSize == 11

\* assignGroupColor(group, groupColorMap, myColors, colorCounter)
assignGroupColor(group, st) ==
    LET k == ToPropertyKey(group) IN
    IF ~In(st.map, k)
    THEN [map   |-> SetPrimitive(st.map, k, st.index % PaletteSize),
          index |-> st.index + 1]
    ELSE st

RECURSIVE AssignColors(_, _, _)
AssignColors(groups, i, st) ==
    IF i > Len(groups) THEN st
    ELSE AssignColors(groups, i + 1, assignGroupColor(groups[i], st))

\* groupDisplayMap[group] = index + 1 for every group of allGroups; i is
\* index + 1.
RECURSIVE DisplayMapFrom(_, _, _)
DisplayMapFrom(groups, i, map) ==
    IF i > Len(groups) THEN map
    ELSE DisplayMapFrom(groups, i + 1,
                        SetPrimitive(map, ToPropertyKey(groups[i]), i))

\* cleanupGroupColors(allGroups, groupColorMap): Object.keys yields the own
\* keys, which are strings, and includes compares them with the groups.
cleanupGroupColors(groups, map) ==
    [map EXCEPT !.own = [x \in {k \in DOMAIN map.own : Includes(groups, k)}
                             |-> map.own[x]]]

----------------------------------------------------------------------------
(* isGraphStructureChanged *)

\* Mutant of SortedKey: the two ids are joined as they come.
SortedKey_Unsorted(u, v) == u \o <<"-">> \o v

\* [u, v].sort().join("-")
SortedKey(u, v) ==
    IF StringLess(v, u) THEN v \o <<"-">> \o u ELSE u \o <<"-">> \o v

\* d.source.id || d.source, for an end of a link of graphState.currentLinks:
\* the simulation has replaced it by the node object.
EndId(end) == end.id

\* isGraphStructureChanged(newNodes, newLinks, graphState), graphState read
\* for currentNodes and currentLinks.
isGraphStructureChanged(newNodes, newLinks, oldNodes, oldLinks) ==
    LET oldNodeIds == {oldNodes[k].id : k \in 1..Len(oldNodes)}
        newNodeIds == {newNodes[k].id : k \in 1..Len(newNodes)}
        oldEdges   == {SortedKey(EndId(oldLinks[k].source), EndId(oldLinks[k].target)) :
                           k \in 1..Len(oldLinks)}
        newEdges   == {SortedKey(newLinks[k].source, newLinks[k].target) :
                           k \in 1..Len(newLinks)}
    IN
    IF Cardinality(oldNodeIds) # Cardinality(newNodeIds)
       \/ \E id \in newNodeIds : id \notin oldNodeIds
    THEN TRUE
    ELSE IF Cardinality(oldEdges) # Cardinality(newEdges)
            \/ \E e \in newEdges : e \notin oldEdges
    THEN TRUE
    ELSE FALSE

----------------------------------------------------------------------------
(* renderGraph *)

\* The node object the link force finds for an id (forceLink().id(d => d.id)).
NodeById(nodes, id) == nodes[CHOOSE k \in 1..Len(nodes) : nodes[k].id = id]

\* simulation.force("link").links(links): the ends of every link object are
\* replaced, in the object, by the node objects of the simulation.
BindLinks(ls, nodes) ==
    [k \in 1..Len(ls) |-> [ls[k] EXCEPT !.source = NodeById(nodes, @),
                                        !.target = NodeById(nodes, @)]]

\* `${d.source.id}-${d.target.id}`: the key by which the paths, the arrows
\* and the weight labels are joined to the links of the simulation.
LinkKey(d) == d.source.id \o <<"-">> \o d.target.id

\* new Map()
EmptyMap == [x \in {} |-> {}]

\* if (!adjacency.has(k)) adjacency.set(k, new Set())
EnsureKey(adj, k) ==
    IF k \in DOMAIN adj THEN adj
    ELSE [x \in (DOMAIN adj) \cup {k} |-> IF x = k THEN {} ELSE adj[x]]

\* adjacency.get(k).add(v)
AddNeighbor(adj, k, v) == [adj EXCEPT ![k] = @ \cup {v}]

\* One iteration of links.forEach in buildAdjacencyNeighbor; the ends of
\* the links are the node objects of the simulation.
NeighborStep(adj, l, directed) ==
    LET sId == EndId(l.source)
        tId == EndId(l.target)
    IN IF directed
       THEN AddNeighbor(EnsureKey(adj, sId), sId, tId)
       ELSE AddNeighbor(AddNeighbor(EnsureKey(EnsureKey(adj, sId), tId), sId, tId),
                        tId, sId)

RECURSIVE NeighborsFrom(_, _, _, _)
NeighborsFrom(ls, i, adj, directed) ==
    IF i > Len(ls) THEN adj
    ELSE NeighborsFrom(ls, i + 1, NeighborStep(adj, ls[i], directed), directed)

\* Mutant of buildAdjacencyNeighbor: the links are read as undirected in
\* both modes.
buildAdjacencyNeighbor_BothEnds(ls, directed) == NeighborsFrom(ls, 1, EmptyMap, FALSE)

\* buildAdjacencyNeighbor(links, graphState), graphState read for isDirected
buildAdjacencyNeighbor(ls, directed) == NeighborsFrom(ls, 1, EmptyMap, directed)

\* Mutant of renderGraph: the simulation is bound to the records of data
\* themselves.
renderGraph_NoCopies(data, zoom, directed, trigger) ==
    LET bound == BindLinks(data.links, data.nodes)
    IN [data            |-> [nodes |-> data.nodes, links |-> bound],
        currentNodes    |-> data.nodes,
        currentLinks    |-> bound,
        restarted       |-> (zoom \/ (directed /\ ~trigger)),
        zoomToFit       |-> zoom,
        adjacency       |-> buildAdjacencyNeighbor(bound, directed),
        directedTrigger |-> directed]

\* Mutant of renderGraph: the simulation is restarted on shouldZoom alone.
renderGraph_RestartOnZoomOnly(data, zoom, directed, trigger) ==
    LET bound == BindLinks(data.links, data.nodes)
    IN [data            |-> data,
        currentNodes    |-> data.nodes,
        currentLinks    |-> bound,
        restarted       |-> zoom,
        zoomToFit       |-> zoom,
        adjacency       |-> buildAdjacencyNeighbor(bound, directed),
        directedTrigger |-> directed]

\* renderGraph(data, shouldZoom, ..., graphTriggers, graphState, ...), for
\* what it does to the records of data and to graphState and graphTriggers:
\* the records the simulation is bound to are the copies of lines 31-32, so
\* the records of data stay as they are handed in.  The coordinates the
\* copies of the nodes receive and the elements drawn are left out.
\* zoomToFit: the tick handler installed calls zoomToFit on the twentieth
\* tick (shouldZoom && !hasZoomed).
renderGraph(data, zoom, directed, trigger) ==
    LET linkCopies == data.links
        nodeCopies == data.nodes
        bound      == BindLinks(linkCopies, nodeCopies)
    IN [data            |-> data,
        currentNodes    |-> nodeCopies,
        currentLinks    |-> bound,
        restarted       |-> (zoom \/ (directed /\ ~trigger)),
        zoomToFit       |-> zoom,
        adjacency       |-> buildAdjacencyNeighbor(bound, directed),
        directedTrigger |-> directed]

----------------------------------------------------------------------------
(* editorHelper.js: the markers, the annotation and the message of a panel, *)
(* and the change handlers with their timers                                *)

\* A panel is what one editor shows of the errors: markerArray is
\* nodeErrorMarkers or edgeErrorMarkers (the ids of the markers added),
\* sessionMarkers the markers of the editor's session (id -> row),
\* annotations the gutter annotations of the session, message the text of
\* the element below the editor.
NoMarkers == [x \in {} |-> 0]

\* The text '' of the message element.
NoMessage == [line |-> 0, reason |-> ""]

EmptyPanel ==
    [markerArray |-> <<>>, sessionMarkers |-> NoMarkers, annotations |-> <<>>,
     message |-> NoMessage]

\* The id session.addMarker hands out is one no marker of the session has:
\* here the least such number.
FreshMarkerId(markers) ==
    CHOOSE n \in 1..(Cardinality(DOMAIN markers) + 1) :
        /\ n \notin DOMAIN markers
        /\ \A m \in 1..(n - 1) : m \in DOMAIN markers

\* session.removeMarker(id)
RemoveMarker(markers, id) == [x \in (DOMAIN markers) \ {id} |-> markers[x]]

RECURSIVE RemoveMarkers(_, _, _)
RemoveMarkers(markers, ids, i) ==
    IF i > Len(ids) THEN markers
    ELSE RemoveMarkers(RemoveMarker(markers, ids[i]), ids, i + 1)

\* clearEditorMarkers(editor, markerIds)
clearEditorMarkers(panel) ==
    [panel EXCEPT !.sessionMarkers = RemoveMarkers(@, panel.markerArray, 1),
                  !.markerArray = <<>>]

\* session.addMarker(new ace.Range(error.line, ...)) and markerArray.push(id)
AddMarker(panel, error) ==
    LET id == FreshMarkerId(panel.sessionMarkers) IN
    [panel EXCEPT !.sessionMarkers =
                      [x \in (DOMAIN @) \cup {id} |-> IF x = id THEN error.line ELSE @[x]],
                  !.markerArray = Append(@, id)]

RECURSIVE AddMarkers(_, _, _)
AddMarkers(panel, errors, i) ==
    IF i > Len(errors) THEN panel
    ELSE AddMarkers(AddMarker(panel, errors[i]), errors, i + 1)

\* Mutant of markEditorErrors: the markers of the call before are kept.
markEditorErrors_NoClear(panel, errors) == AddMarkers(panel, errors, 1)

\* markEditorErrors(editor, errors, markerArray)
markEditorErrors(panel, errors) == AddMarkers(clearEditorMarkers(panel), errors, 1)

\* markEditorAnnotation(editor, errors)
markEditorAnnotation(panel, errors) ==
    IF Len(errors) > 0
    THEN [panel EXCEPT !.annotations =
              << [row |-> errors[1].line, column |-> 0, text |-> errors[1].reason,
                  type |-> "warning"] >>]
    ELSE [panel EXCEPT !.annotations = <<>>]

\* setEditorErrorMessage(containerId, errors): the text
\* `Line ${errors[0].line + 1}: ${errors[0].reason}` as the number and the
\* reason it is made of.
setEditorErrorMessage(panel, errors) ==
    IF Len(errors) > 0
    THEN [panel EXCEPT !.message = [line |-> errors[1].line + 1,
                                    reason |-> errors[1].reason]]
    ELSE [panel EXCEPT !.message = NoMessage]

\* handleEditorErrors(editor, errors, markerArray, containerId)
handleEditorErrors(panel, errors) ==
    setEditorErrorMessage(markEditorAnnotation(markEditorErrors(panel, errors), errors),
                          errors)

\* The input state of an editor: listeners, the functions registered by
\* session.on("change", ...), each named by the place in app.js of the
\* arrow function expression that made it; pending, the number of timers
\* set and neither fired nor cleared; live, nodeInputState.timeout (or
\* edgeInputState.timeout) is the id of one of them.
NodeListenerAtStart == "app.js:94"
EdgeListenerAtStart == "app.js:97"
NodeListenerDetached == "app.js:174"
EdgeListenerDetached == "app.js:177"
NodeListenerAtLoad == "app.js:200"
EdgeListenerAtLoad == "app.js:203"

\* clearTimeout(state.timeout) and state.timeout = setTimeout(..., 500)
Debounce(input) ==
    [input EXCEPT !.pending = (IF input.live THEN @ - 1 ELSE @) + 1,
                  !.live = TRUE]

\* handleNodeInput(nodeInputState, nodesEditor, ...); st holds the input
\* state and the panel of the editor.
handleNodeInput(st) ==
    [input |-> Debounce(st.input),
     panel |-> [clearEditorMarkers(st.panel) EXCEPT !.annotations = <<>>]]

\* handleEdgeInput(edgeInputState, nodesEditor, edgesEditor, ...)
handleEdgeInput(st) ==
    [input |-> Debounce(st.input),
     panel |-> [clearEditorMarkers(st.panel) EXCEPT !.annotations = <<>>]]

\* A change event of the nodes editor: every listener is called, and every
\* listener calls handleNodeInput.
RECURSIVE EmitNodeChange(_, _)
EmitNodeChange(st, i) ==
    IF i > Len(st.input.listeners) THEN st
    ELSE EmitNodeChange(handleNodeInput(st), i + 1)

RECURSIVE EmitEdgeChange(_, _)
EmitEdgeChange(st, i) ==
    IF i > Len(st.input.listeners) THEN st
    ELSE EmitEdgeChange(handleEdgeInput(st), i + 1)

\* session.off("change", f): f is taken off the listeners when it is one
\* of them.
Off(input, f) ==
    [input EXCEPT !.listeners = SelectSeq(@, LAMBDA g : g # f)]

\* session.on("change", f)
On(input, f) == [input EXCEPT !.listeners = Append(@, f)]

\* editor.setValue(text, -1) on an editor that holds old: the document
\* removes the old text and inserts the new one, and each of the two that
\* is not empty is a change event.
SetNodeValue(st, old, text) ==
    LET afterRemove == IF old # <<>> THEN EmitNodeChange(st, 1) ELSE st
    IN IF text # <<>> THEN EmitNodeChange(afterRemove, 1) ELSE afterRemove

SetEdgeValue(st, old, text) ==
    LET afterRemove == IF old # <<>> THEN EmitEdgeChange(st, 1) ELSE st
    IN IF text # <<>> THEN EmitEdgeChange(afterRemove, 1) ELSE afterRemove

----------------------------------------------------------------------------
(* Inputs *)

MaxNodeTextLen == 5
MaxEdgeLines == 3
MaxGraphEdges == 3

\* All sequences over S of length at most n.
RECURSIVE SeqsUpTo(_, _)
SeqsUpTo(S, n) ==
    IF n = 0 THEN {<<>>}
    ELSE LET shorter == SeqsUpTo(S, n - 1)
         IN shorter \cup {Append(s, x) : s \in {t \in shorter : Len(t) = n - 1}, x \in S}

\* Node texts typed character by character: two identifiers that differ in
\* case only, a character outside the class, a blank and the line break.
NodeChars == {"A", "a", "-", " ", "\n"}
TypedNodeTexts == SeqsUpTo(NodeChars, MaxNodeTextLen)

\* Node texts of the edge parser's runs: three valid nodes; and one text
\* with a padded line, a blank line, a duplicate and an invalid name before
\* its second valid node.
ParseNodeTexts ==
    { <<"A", "\n", "B", "\n", "C">>,
      <<" ", "A", "\n", "\n", "A", "\n", "D", "-", "\n", "B">> }

\* Edge lines of the edge parser's runs.
ParseEdgeLines ==
    { <<"A", " ", "B">>,
      <<"B", " ", "A">>,
      <<"A", " ", "A">>,
      <<"A", " ", "B", " ", "x">>,
      <<"A", " ", "B", " ", "5">>,
      <<" ", "B", " ", "\t", "C", "\r">>,
      <<"A", "-">>,
      <<"A", " ", "D", "-">>,
      <<"A", " ", "D", " ", "x">>,
      <<" ">> }
ParseEdgeTexts == {JoinLines(ls) : ls \in SeqsUpTo(ParseEdgeLines, MaxEdgeLines)}

\* Node texts and edge lines of the grouping runs: four plain nodes; three
\* nodes of which one is named __proto__; and three of which one is named
\* constructor.
GraphNodeTexts ==
    { <<"A", "\n", "B", "\n", "C", "\n", "D">>,
      <<"A", "\n">> \o ProtoKey \o <<"\n", "B">>,
      <<"A", "\n", "c", "o", "n", "s", "t", "r", "u", "c", "t", "o", "r", "\n", "B">> }

GraphEdgeLines ==
    { <<"A", " ", "B">>,
      <<"B", " ", "A">>,
      <<"C", " ", "B">>,
      <<"C", " ", "D">>,
      <<"D", " ", "D">>,
      <<"A", " ">> \o ProtoKey,
      ProtoKey \o <<" ", "B">> }
GraphEdgeTexts == {JoinLines(ls) : ls \in SeqsUpTo(GraphEdgeLines, MaxGraphEdges)}

\* Node and edge texts of the cycles: a node more or less, the shorter text
\* with a duplicate line and an invalid line after its nodes; no edge, an
\* edge, its reverse, the edge with a weight, both directions of it, an
\* edge on another pair followed by a line on an unknown node, two edges.
MaxColorCounter == 3

CycleNodeTexts ==
    { <<"A", "\n", "B", "\n", "B", "\n", "-">>,
      <<"A", "\n", "B", "\n", "C">> }

CycleEdgeTexts ==
    { <<>>,
      <<"A", " ", "B">>,
      <<"B", " ", "A">>,
      <<"A", " ", "B", " ", "5">>,
      <<"A", " ", "B", "\n", "B", " ", "A">>,
      <<"B", " ", "C", "\n", "C", " ", "D">>,
      <<"A", " ", "B", "\n", "B", " ", "C">> }

\* The node texts graph.json may give: those of the cycles, and none.
LoadedNodeTexts == CycleNodeTexts \cup {<<>>}

\* The colours of the groups graph.json names: none, or one for the group A.
LoadedColorMaps == {EmptyObject, SetPrimitive(EmptyObject, <<"A">>, 0)}

----------------------------------------------------------------------------
(* updateGraphFromInput, one action per call of the pipeline *)

\* graphState, graphTriggers, colorCounter, the editors and their input
\* states as app.js declares them, and the locals of updateGraphFromInput
\* before a first call.
Declared ==
    /\ validNodes = <<>>
    /\ nodeErrors = <<>>
    /\ validEdges = <<>>
    /\ edgeErrors = <<>>
    /\ graph = EmptyObject
    /\ groupedNodes = <<>>
    /\ links = <<>>
    /\ allGroups = <<>>
    /\ groupDisplayMap = EmptyObject
    /\ colorCounter = 0
    /\ currentNodes = <<>>
    /\ currentLinks = <<>>
    /\ directedTrigger = FALSE
    /\ restarted = FALSE
    /\ zoomScheduled = FALSE
    /\ adjacency = EmptyMap
    /\ nodeInput = [listeners |-> <<NodeListenerAtStart>>, pending |-> 0, live |-> FALSE]
    /\ edgeInput = [listeners |-> <<EdgeListenerAtStart>>, pending |-> 0, live |-> FALSE]
    /\ nodePanel = EmptyPanel
    /\ edgePanel = EmptyPanel

\* A first call of updateGraphFromInput, with shouldZoom = true.
Start ==
    /\ Declared
    /\ loading = FALSE
    /\ shouldZoom = TRUE
    /\ pc = "validateNodes"

InitNodes ==
    /\ nodeText \in TypedNodeTexts
    /\ edgeText = <<>>
    /\ isDirected = FALSE
    /\ isWeighted = FALSE
    /\ groupColorMap = EmptyObject
    /\ Start

InitParse ==
    /\ nodeText \in ParseNodeTexts
    /\ edgeText \in ParseEdgeTexts
    /\ isDirected \in BOOLEAN
    /\ isWeighted \in BOOLEAN
    /\ groupColorMap = EmptyObject
    /\ Start

Init ==
    /\ nodeText \in GraphNodeTexts
    /\ edgeText \in GraphEdgeTexts
    /\ isDirected \in BOOLEAN
    /\ isWeighted \in BOOLEAN
    /\ groupColorMap = EmptyObject
    /\ Start

\* app.js has been evaluated and graph.json has not arrived yet: the
\* editors are empty, the flags are as declared, no colour is assigned.
InitCycles ==
    /\ nodeText = <<>>
    /\ edgeText = <<>>
    /\ isDirected = FALSE
    /\ isWeighted = FALSE
    /\ groupColorMap = EmptyObject
    /\ Declared
    /\ loading = FALSE
    /\ shouldZoom = FALSE
    /\ pc = "load"

\* The callback of d3.json up to its call of updateGraphFromInput:
\* session.off with two functions made on the spot, the two setValue with
\* the change events they emit, the colours of the groups graph.json names,
\* and the call with shouldZoom = true.
LoadGraph ==
    /\ pc = "load"
    /\ \E newNodeText \in LoadedNodeTexts, newEdgeText \in CycleEdgeTexts,
          colors \in LoadedColorMaps :
          LET n == SetNodeValue([input |-> Off(nodeInput, NodeListenerDetached),
                                 panel |-> nodePanel], nodeText, newNodeText)
              e == SetEdgeValue([input |-> Off(edgeInput, EdgeListenerDetached),
                                 panel |-> edgePanel], edgeText, newEdgeText)
          IN /\ nodeText' = newNodeText
             /\ edgeText' = newEdgeText
             /\ nodeInput' = n.input
             /\ nodePanel' = n.panel
             /\ edgeInput' = e.input
             /\ edgePanel' = e.panel
             /\ groupColorMap' = colors
    /\ loading' = TRUE
    /\ shouldZoom' = TRUE
    /\ pc' = "validateNodes"
    /\ UNCHANGED <<isDirected, isWeighted, parseVars, allGroups, groupDisplayMap,
                   colorCounter, renderVars>>

\* The end of the callback of d3.json, once updateGraphFromInput has
\* returned: session.on with two more functions.
LoadReattach ==
    /\ pc = "done"
    /\ loading
    /\ nodeInput' = On(nodeInput, NodeListenerAtLoad)
    /\ edgeInput' = On(edgeInput, EdgeListenerAtLoad)
    /\ loading' = FALSE
    /\ UNCHANGED <<inputVars, parseVars, groupVars, shouldZoom, renderVars,
                   panelVars, pc>>

\* validateNodes and handleEditorErrors for the nodes editor.
RunValidateNodes ==
    /\ pc = "validateNodes"
    /\ LET r == validateNodes(nodeText)
       IN /\ validNodes' = r.validNodes
          /\ nodeErrors' = r.nodeErrors
          /\ nodePanel' = handleEditorErrors(nodePanel, r.nodeErrors)
    /\ pc' = "validateGraphEdges"
    /\ UNCHANGED <<nodeText, edgeText, isDirected, isWeighted, validEdges,
                   edgeErrors, graph, groupedNodes, links>>
    /\ UNCHANGED <<groupVars, shouldZoom, renderVars, inputStateVars, edgePanel>>

\* validateGraphEdges and handleEditorErrors for the edges editor.
RunValidateGraphEdges ==
    /\ pc = "validateGraphEdges"
    /\ LET r == validateGraphEdges(edgeText, validNodes, isDirected, isWeighted)
       IN /\ validEdges' = r.validEdges
          /\ edgeErrors' = r.edgeErrors
          /\ edgePanel' = handleEditorErrors(edgePanel, r.edgeErrors)
    /\ pc' = "buildAdjacencyList"
    /\ UNCHANGED <<nodeText, edgeText, isDirected, isWeighted, validNodes,
                   nodeErrors, graph, groupedNodes, links>>
    /\ UNCHANGED <<groupVars, shouldZoom, renderVars, inputStateVars, nodePanel>>

RunBuildAdjacencyList ==
    /\ pc = "buildAdjacencyList"
    /\ graph' = buildAdjacencyList(validNodes, validEdges, isDirected)
    /\ pc' = "assignGroups"
    /\ UNCHANGED <<nodeText, edgeText, isDirected, isWeighted, validNodes,
                   nodeErrors, validEdges, edgeErrors, groupedNodes, links>>
    /\ UNCHANGED <<groupVars, shouldZoom, renderVars, inputStateVars, panelVars>>

\* A RangeError thrown by assignGroups is caught nowhere: it ends
\* updateGraphFromInput before formatEdges and the rendering, and the
\* callback of the load when that is the caller.
RunAssignGroups ==
    /\ pc = "assignGroups"
    /\ LET r == assignGroups(validNodes, graph)
       IN /\ groupedNodes' = IF r.threw THEN groupedNodes ELSE r.result
          /\ pc' = IF r.threw THEN "RangeError" ELSE "formatEdges"
          /\ loading' = (loading /\ ~r.threw)
    /\ UNCHANGED <<nodeText, edgeText, isDirected, isWeighted, validNodes,
                   nodeErrors, validEdges, edgeErrors, graph, links>>
    /\ UNCHANGED <<groupVars, shouldZoom, renderVars, nodeInput, edgeInput, panelVars>>

\* Mutant of RunFormatEdges: the array of the links outlives the call, and
\* the links of a cycle are added to those of the cycles before.
RunFormatEdges_KeepsResult ==
    /\ pc = "formatEdges"
    /\ links' = links \o formatEdges(validEdges)
    /\ pc' = "assignGroupColor"
    /\ UNCHANGED <<nodeText, edgeText, isDirected, isWeighted, validNodes,
                   nodeErrors, validEdges, edgeErrors, graph, groupedNodes>>
    /\ UNCHANGED <<groupVars, shouldZoom, renderVars, inputStateVars, panelVars>>

RunFormatEdges ==
    /\ pc = "formatEdges"
    /\ links' = formatEdges(validEdges)
    /\ pc' = "assignGroupColor"
    /\ UNCHANGED <<nodeText, edgeText, isDirected, isWeighted, validNodes,
                   nodeErrors, validEdges, edgeErrors, graph, groupedNodes>>
    /\ UNCHANGED <<groupVars, shouldZoom, renderVars, inputStateVars, panelVars>>

\* allGroups, the colours of the new groups, groupDisplayMap and the
\* colours of the groups that are gone.
RunAssignGroupColors ==
    /\ pc = "assignGroupColor"
    /\ LET groups == GroupsOf(groupedNodes)
           st     == AssignColors(groups, 1,
                                  [map |-> groupColorMap, index |-> colorCounter])
       IN /\ allGroups' = groups
          /\ groupDisplayMap' = DisplayMapFrom(groups, 1, EmptyObject)
          /\ groupColorMap' = cleanupGroupColors(groups, st.map)
          /\ colorCounter' = st.index
    /\ pc' = "isGraphStructureChanged"
    /\ UNCHANGED <<inputVars, parseVars, shouldZoom, renderVars, inputStateVars,
                   panelVars>>

\* shouldZoom |= isGraphStructureChanged(graphData.nodes, graphData.links,
\* graphState)
RunIsGraphStructureChanged ==
    /\ pc = "isGraphStructureChanged"
    /\ shouldZoom' = (shouldZoom \/ isGraphStructureChanged(groupedNodes, links,
                                                           currentNodes, currentLinks))
    /\ pc' = "renderGraph"
    /\ UNCHANGED <<inputVars, parseVars, groupVars, renderVars, inputStateVars,
                   panelVars>>

RunRenderGraph ==
    /\ pc = "renderGraph"
    /\ LET r == renderGraph([nodes |-> groupedNodes, links |-> links],
                            shouldZoom, isDirected, directedTrigger)
       IN /\ groupedNodes' = r.data.nodes
          /\ links' = r.data.links
          /\ currentNodes' = r.currentNodes
          /\ currentLinks' = r.currentLinks
          /\ restarted' = r.restarted
          /\ zoomScheduled' = r.zoomToFit
          /\ adjacency' = r.adjacency
          /\ directedTrigger' = r.directedTrigger
    /\ pc' = "done"
    /\ UNCHANGED <<inputVars, validNodes, nodeErrors, validEdges, edgeErrors,
                   graph, groupVars, shouldZoom, inputStateVars, panelVars>>

\* One call of updateGraphFromInput.
Next ==
    \/ RunValidateNodes
    \/ RunValidateGraphEdges
    \/ RunBuildAdjacencyList
    \/ RunAssignGroups
    \/ RunFormatEdges
    \/ RunAssignGroupColors
    \/ RunIsGraphStructureChanged
    \/ RunRenderGraph

\* No handler is running: the last call of updateGraphFromInput has
\* returned or has ended in the RangeError, and the callback of the load
\* has ended.
Idle == pc \in {"done", "RangeError"} /\ ~loading

\* The user replaces the text of the nodes editor, the text the next call
\* of updateGraphFromInput reads: a change event of the editor.
EditNodes ==
    /\ Idle
    /\ nodeText' \in CycleNodeTexts \ {nodeText}
    /\ LET n == EmitNodeChange([input |-> nodeInput, panel |-> nodePanel], 1)
       IN /\ nodeInput' = n.input
          /\ nodePanel' = n.panel
    /\ UNCHANGED <<edgeText, isDirected, isWeighted, parseVars, groupVars,
                   shouldZoom, renderVars, edgeInput, edgePanel, loading, pc>>

\* The user replaces the text of the edges editor.
EditEdges ==
    /\ Idle
    /\ edgeText' \in CycleEdgeTexts \ {edgeText}
    /\ LET e == EmitEdgeChange([input |-> edgeInput, panel |-> edgePanel], 1)
       IN /\ edgeInput' = e.input
          /\ edgePanel' = e.panel
    /\ UNCHANGED <<nodeText, isDirected, isWeighted, parseVars, groupVars,
                   shouldZoom, renderVars, nodeInput, nodePanel, loading, pc>>

\* A timer of an input state fires, and with it the one the state refers to
\* when that is the only one.
Fired(input) ==
    [input EXCEPT !.pending = @ - 1,
                  !.live = IF input.pending = 1 THEN FALSE ELSE @]

\* A timer set by handleNodeInput fires, 500 ms after it was set.  Its
\* callback evaluates the arguments of its call of updateGraphFromInput, of
\* which graphTriggers is bound in no scope of editorHelper.js: a
\* ReferenceError ends the callback before updateGraphFromInput is called,
\* and nothing catches it.
FireNodeTimer ==
    /\ Idle
    /\ nodeInput.pending > 0
    /\ nodeInput' = Fired(nodeInput)
    /\ UNCHANGED <<inputVars, parseVars, groupVars, shouldZoom, renderVars,
                   edgeInput, loading, panelVars, pc>>

\* A timer set by handleEdgeInput fires: the same ReferenceError.
FireEdgeTimer ==
    /\ Idle
    /\ edgeInput.pending > 0
    /\ edgeInput' = Fired(edgeInput)
    /\ UNCHANGED <<inputVars, parseVars, groupVars, shouldZoom, renderVars,
                   nodeInput, loading, panelVars, pc>>

\* The click handler of toggle-weighted: the flag is flipped and
\* updateGraphFromInput is called, shouldZoom left to its default.
ToggleWeighted ==
    /\ Idle
    /\ colorCounter < MaxColorCounter
    /\ isWeighted' = ~isWeighted
    /\ shouldZoom' = FALSE
    /\ pc' = "validateNodes"
    /\ UNCHANGED <<nodeText, edgeText, isDirected, parseVars, groupVars, renderVars,
                   inputStateVars, panelVars>>

\* The click handler of toggle-directed.
ToggleDirected ==
    /\ Idle
    /\ colorCounter < MaxColorCounter
    /\ isDirected' = ~isDirected
    /\ shouldZoom' = FALSE
    /\ pc' = "validateNodes"
    /\ UNCHANGED <<nodeText, edgeText, isWeighted, parseVars, groupVars, renderVars,
                   inputStateVars, panelVars>>

\* The load, the calls of updateGraphFromInput and what the user and the
\* timers do between them.
NextCycles ==
    \/ LoadGraph
    \/ LoadReattach
    \/ Next
    \/ EditNodes
    \/ EditEdges
    \/ FireNodeTimer
    \/ FireEdgeTimer
    \/ ToggleWeighted
    \/ ToggleDirected

\* The grouping runs.
Spec == Init /\ [][Next]_vars

\* The runs on typed node texts.
SpecNodes == InitNodes /\ [][Next]_vars

\* The runs of the edge parser.
SpecParse == InitParse /\ [][Next]_vars

\* The cycles: the first load, then the edits, the timers and the clicks on
\* the toggles.
SpecCycles == InitCycles /\ [][NextCycles]_vars

----------------------------------------------------------------------------
(* Claims on validateNodes, checked under SpecNodes *)

NodesValidated == pc # "validateNodes"

\* The trimmed lines of the node text, line i of the text at index i + 1.
NodeLines == [i \in 1..Len(SplitLines(nodeText)) |-> Trim(SplitLines(nodeText)[i])]

\* The lines that are identifiers.
NameLines == {i \in 1..Len(NodeLines) : ValidRegexTest(NodeLines[i])}

\* The lines that are the first occurrence of their identifier.
FirstLines == {i \in NameLines : \A j \in 1..(i - 1) : NodeLines[j] # NodeLines[i]}

\* The line on which identifier x occurs first.
FirstLineOf(x) == CHOOSE i \in FirstLines : NodeLines[i] = x

ErrorsOnLine(errors, i) == {k \in 1..Len(errors) : errors[k].line = i}

\* C2: validNodes holds exactly the distinct trimmed non-blank lines that
\* match ^[A-Za-z0-9_]+$ (case-sensitive), each once, in the order of their
\* first occurrence in the text.
C2_ValidNodesAreFirstOccurrences ==
    NodesValidated =>
        /\ {validNodes[k] : k \in 1..Len(validNodes)} = {NodeLines[i] : i \in NameLines}
        /\ \A k, l \in 1..Len(validNodes) :
               k < l => /\ validNodes[k] # validNodes[l]
                        /\ FirstLineOf(validNodes[k]) < FirstLineOf(validNodes[l])

\* A text with two identifiers that differ in case only, the later one
\* first, and a repeated line.
C2_Witness ==
    /\ NodesValidated
    /\ validNodes = << <<"a">>, <<"A">> >>
    /\ \E i \in NameLines : i \notin FirstLines

\* C3: a text that is the join of unique identifiers validates to those
\* identifiers, in their order, with no error; validating it again gives
\* the same result.
C3_RoundTrip ==
    NodesValidated =>
        /\ nodeText = JoinLines(<<>>) => validNodes = <<>> /\ nodeErrors = <<>>
        /\ LET ids == SplitLines(nodeText) IN
           ( /\ nodeText = JoinLines(ids)
             /\ \A i \in 1..Len(ids) : ValidRegexTest(ids[i])
             /\ \A i, j \in 1..Len(ids) : i # j => ids[i] # ids[j] )
           => validNodes = ids /\ nodeErrors = <<>>
        /\ validateNodes(JoinLines(validNodes)) =
               [validNodes |-> validNodes, nodeErrors |-> <<>>]
        /\ validateNodes(nodeText) =
               [validNodes |-> validNodes, nodeErrors |-> nodeErrors]

\* Two unique identifiers, one of them a prefix of the other but for its case.
C3_Witness ==
    /\ NodesValidated
    /\ nodeText = <<"a", "A", "\n", "A">>
    /\ validNodes = << <<"a", "A">>, <<"A">> >>

\* C4: a non-blank line that is no identifier gets exactly one 'Invalid node
\* name' error, a line that repeats an admitted identifier exactly one
\* 'Duplicate node name' error, each with the 0-based index of the line; a
\* first occurrence and a blank line get none.
C4_NodeErrorPerLine ==
    NodesValidated =>
        /\ \A k \in 1..Len(nodeErrors) : nodeErrors[k].line + 1 \in 1..Len(NodeLines)
        /\ \A i \in 1..Len(NodeLines) :
             LET at == ErrorsOnLine(nodeErrors, i - 1) IN
             IF NodeLines[i] = <<>> \/ i \in FirstLines THEN at = {}
             ELSE /\ Cardinality(at) = 1
                  /\ \A k \in at :
                       nodeErrors[k].reason =
                           IF i \in NameLines THEN "Duplicate node name"
                           ELSE "Invalid node name"

\* An invalid line and a repeated identifier in one text.
C4_Witness ==
    /\ NodesValidated
    /\ \E k, l \in 1..Len(nodeErrors) :
          /\ nodeErrors[k].reason = "Invalid node name"
          /\ nodeErrors[l].reason = "Duplicate node name"
          /\ nodeErrors[l].line = 2

----------------------------------------------------------------------------
(* Claims on validateGraphEdges, checked under SpecParse *)

\* validateGraphEdges has just returned.
EdgesValidated == pc = "buildAdjacencyList"

\* The parts of every line of the edge text, line i of the text at index
\* i + 1; a blank line has the empty part alone.
EdgeParts ==
    LET ls == SplitLines(edgeText)
    IN [i \in 1..Len(ls) |-> SplitSpace(Trim(ls[i]))]

BlankParts == << <<>> >>
NonBlank(P) == {i \in 1..Len(P) : P[i] # BlankParts}

\* The trimmed lines of the node text, split likewise.
NodeParts == [i \in 1..Len(NodeLines) |-> IF NodeLines[i] = <<>> THEN BlankParts
                                          ELSE <<NodeLines[i]>>]

ValidNodeSet == {validNodes[k] : k \in 1..Len(validNodes)}

\* The five checks of a non-blank edge line with parts p, each stated on its
\* own.
ArityFails(p) == IF isWeighted THEN Len(p) \notin {2, 3} ELSE Len(p) # 2
NameFails(p) == \E t \in {p[1], p[2]} : ~ValidRegexTest(t)
ExistenceFails(p) == \E t \in {p[1], p[2]} : t \notin ValidNodeSet
WeightFails(p) == Len(p) = 3 /\ Number(p[3]).isNaN

\* The lines the parser admitted: the non-blank lines it reported no error on.
AdmittedLines(P) == {i \in NonBlank(P) : ErrorsOnLine(edgeErrors, i - 1) = {}}

\* Two lines with the same endpoints: as an ordered pair in directed mode,
\* as an unordered pair otherwise.
SamePair(p, q) ==
    IF isDirected THEN p[1] = q[1] /\ p[2] = q[2]
    ELSE {p[1], p[2]} = {q[1], q[2]}

\* Line i has the endpoints of an admitted line before it.
RepeatsAdmitted(P, A, i) == \E j \in A : j < i /\ SamePair(P[i], P[j])

\* Line i reaches the weight and duplicate checks.
PassesEarlierChecks(P, i) ==
    /\ i \in NonBlank(P)
    /\ ~ArityFails(P[i])
    /\ ~NameFails(P[i])
    /\ ~ExistenceFails(P[i])

\* The reason of the first failing check of line i, in the order arity,
\* names, existence, weight, duplicate ("" when every check passes).
FirstFailure(P, A, i) ==
    IF ArityFails(P[i])
    THEN IF isWeighted THEN "Edge must have 2 nodes with an optional weight"
         ELSE "Edge must have exactly 2 nodes"
    ELSE IF NameFails(P[i]) THEN "Invalid node name in edge"
    ELSE IF ExistenceFails(P[i]) THEN "Node in edge does not exist"
    ELSE IF WeightFails(P[i]) THEN "Invalid weight (must be a number)"
    ELSE IF RepeatsAdmitted(P, A, i) THEN "Duplicate edge"
    ELSE ""

ReasonsOnLine(i) ==
    {edgeErrors[k].reason : k \in ErrorsOnLine(edgeErrors, i - 1)}

DuplicateOnLine(i) == "Duplicate edge" \in ReasonsOnLine(i)

\* The number of admitted lines up to line i: the place of line i's edge.
Rank(A, i) == Cardinality({j \in A : j <= i})

\* Every error is on a non-blank line, and no line has two.
OneErrorPerLine(errors, P) ==
    /\ \A k \in 1..Len(errors) : errors[k].line + 1 \in NonBlank(P)
    /\ \A k, l \in 1..Len(errors) : k # l => errors[k].line # errors[l].line

\* C5: in both parsers every non-blank line is either admitted as exactly
\* one valid item or produces exactly one error, blank lines produce
\* neither, and an error does not stop the lines after it: valid items plus
\* errors count the non-blank lines.
C5_OneOutcomePerLine ==
    EdgesValidated =>
        LET P == EdgeParts
            A == AdmittedLines(P)
            N == NodeParts
        IN
        /\ OneErrorPerLine(nodeErrors, N)
        /\ Len(validNodes) + Len(nodeErrors) = Cardinality(NonBlank(N))
        /\ \A i \in NonBlank(N) :
               ErrorsOnLine(nodeErrors, i - 1) = {} <=> i \in FirstLines
        /\ OneErrorPerLine(edgeErrors, P)
        /\ Len(validEdges) + Len(edgeErrors) = Cardinality(NonBlank(P))
        /\ Len(validEdges) = Cardinality(A)
        /\ \A i \in A :
               /\ validEdges[Rank(A, i)][1] = P[i][1]
               /\ validEdges[Rank(A, i)][2] = P[i][2]

\* Both parsers report an error and admit an item on a later line, and the
\* edge text has a blank line.
C5_Witness ==
    /\ EdgesValidated
    /\ \E k \in 1..Len(nodeErrors) : \E i \in FirstLines : nodeErrors[k].line + 1 < i
    /\ \E k \in 1..Len(edgeErrors) :
          \E i \in AdmittedLines(EdgeParts) : edgeErrors[k].line + 1 < i
    /\ \E i \in 1..Len(EdgeParts) : EdgeParts[i] = BlankParts

\* C6: both endpoints of every valid edge are valid nodes, so the endpoints
\* of every link are ids of node records of the same run; a line "u u" on a
\* valid node u is admitted the first time it occurs.
C6_EndpointsAreValidNodes ==
    /\ EdgesValidated =>
          LET P == EdgeParts
              A == AdmittedLines(P)
          IN
          /\ \A k \in 1..Len(validEdges) :
                 validEdges[k][1] \in ValidNodeSet /\ validEdges[k][2] \in ValidNodeSet
          /\ \A i \in NonBlank(P) :
                 ( /\ Len(P[i]) = 2
                   /\ P[i][1] = P[i][2]
                   /\ P[i][1] \in ValidNodeSet
                   /\ \A j \in NonBlank(P) :
                          j < i /\ Len(P[j]) >= 2 =>
                              ~(P[j][1] = P[i][1] /\ P[j][2] = P[i][1]) )
                 => /\ i \in A
                    /\ validEdges[Rank(A, i)] = <<P[i][1], P[i][1], 1>>
    /\ pc = "done" =>
          /\ Len(links) = Len(validEdges)
          /\ \A k \in 1..Len(links) :
                 \E a, b \in 1..Len(groupedNodes) :
                     /\ groupedNodes[a].id = links[k].source
                     /\ groupedNodes[b].id = links[k].target

\* A finished run with a self-loop link, next to an edge line that names a
\* name the node panel rejected.
C6_Witness ==
    /\ pc = "done"
    /\ \E k \in 1..Len(links) : links[k].source = links[k].target
    /\ \E k \in 1..Len(edgeErrors) : edgeErrors[k].reason = "Node in edge does not exist"

\* C7: the error of a non-blank edge line is the one of the first failing
\* check in the order arity, names, existence, weight, duplicate; it is the
\* only error of the line, and a line with an error registers no edge (it
\* is no earlier edge for the duplicate check of the lines after it).
C7_FirstFailingCheckWins ==
    EdgesValidated =>
        LET P == EdgeParts
            A == AdmittedLines(P)
        IN
        \A i \in NonBlank(P) :
            LET first == FirstFailure(P, A, i) IN
            /\ ReasonsOnLine(i) = IF first = "" THEN {} ELSE {first}
            /\ Cardinality(ErrorsOnLine(edgeErrors, i - 1)) <= 1

\* A line that fails two checks: in weighted mode its second name is
\* unknown and its weight is not a number.
C7_Witness ==
    /\ EdgesValidated
    /\ isWeighted
    /\ \E i \in NonBlank(EdgeParts) :
          LET p == EdgeParts[i] IN
          /\ ~ArityFails(p) /\ ~NameFails(p)
          /\ ExistenceFails(p) /\ WeightFails(p)
          /\ ReasonsOnLine(i) = {"Node in edge does not exist"}

\* Line i repeats the endpoints of an admitted edge and its weight is not a
\* number.
RepeatsWithBadWeight(P, A, i) ==
    /\ PassesEarlierChecks(P, i)
    /\ WeightFails(P[i])
    /\ RepeatsAdmitted(P, A, i)

\* C8 as stated: in weighted mode such a line is reported as 'Duplicate
\* edge', not as 'Invalid weight'.
C8_DuplicateBeforeWeight ==
    EdgesValidated /\ isWeighted =>
        LET P == EdgeParts
            A == AdmittedLines(P)
        IN
        \A i \in NonBlank(P) :
            RepeatsWithBadWeight(P, A, i) => ReasonsOnLine(i) = {"Duplicate edge"}

\* C8 amended: in weighted mode such a line is reported as 'Invalid weight
\* (must be a number)', not as 'Duplicate edge': the weight is parsed
\* before the duplicate check.
C8_WeightBeforeDuplicate ==
    EdgesValidated /\ isWeighted =>
        LET P == EdgeParts
            A == AdmittedLines(P)
        IN
        \A i \in NonBlank(P) :
            RepeatsWithBadWeight(P, A, i) =>
                ReasonsOnLine(i) = {"Invalid weight (must be a number)"}

C8_Witness ==
    /\ EdgesValidated
    /\ isWeighted
    /\ \E i \in NonBlank(EdgeParts) :
          RepeatsWithBadWeight(EdgeParts, AdmittedLines(EdgeParts), i)

HasPair(u, v) == \E k \in 1..Len(validEdges) : validEdges[k][1] = u /\ validEdges[k][2] = v

NodeA == <<"A">>
NodeB == <<"B">>

\* C9: in directed mode a line that passes the earlier checks is a
\* duplicate exactly when an earlier admitted line has the same ordered
\* pair; 'A B' then 'B A' gives two valid edges, 'A B' twice one valid edge
\* and one duplicate error.
C9_DirectedDuplicates ==
    EdgesValidated /\ isDirected =>
        LET P == EdgeParts
            A == AdmittedLines(P)
        IN
        /\ \A i \in NonBlank(P) :
               PassesEarlierChecks(P, i) /\ ~WeightFails(P[i]) =>
                   ( DuplicateOnLine(i) <=>
                       \E j \in A : j < i /\ P[j][1] = P[i][1] /\ P[j][2] = P[i][2] )
        /\ {NodeA, NodeB} \subseteq ValidNodeSet =>
               /\ edgeText = <<"A", " ", "B", "\n", "B", " ", "A">> =>
                      /\ validEdges = << <<NodeA, NodeB, 1>>, <<NodeB, NodeA, 1>> >>
                      /\ edgeErrors = <<>>
               /\ edgeText = <<"A", " ", "B", "\n", "A", " ", "B">> =>
                      /\ validEdges = << <<NodeA, NodeB, 1>> >>
                      /\ edgeErrors = << [line |-> 1, reason |-> "Duplicate edge"] >>

\* Directed mode: both directions of a pair are admitted and the repetition
\* of one of them is a duplicate.
C9_Witness ==
    /\ EdgesValidated
    /\ isDirected
    /\ HasPair(NodeA, NodeB) /\ HasPair(NodeB, NodeA)
    /\ \E i \in NonBlank(EdgeParts) : DuplicateOnLine(i)

\* C10: in undirected mode a line that passes the earlier checks is a
\* duplicate exactly when an earlier admitted line has the same unordered
\* pair, so validEdges holds one edge per unordered pair at most; 'A B' then
\* 'B A' gives one valid edge and one duplicate error; in both modes a
\* repeated self-loop line is a duplicate.
C10_UndirectedDuplicates ==
    EdgesValidated =>
        LET P == EdgeParts
            A == AdmittedLines(P)
        IN
        /\ ~isDirected =>
            /\ \A i \in NonBlank(P) :
                   PassesEarlierChecks(P, i) /\ ~WeightFails(P[i]) =>
                       ( DuplicateOnLine(i) <=>
                           \E j \in A : j < i /\ {P[j][1], P[j][2]} = {P[i][1], P[i][2]} )
            /\ \A k, l \in 1..Len(validEdges) :
                   k # l => {validEdges[k][1], validEdges[k][2]}
                              # {validEdges[l][1], validEdges[l][2]}
            /\ ( {NodeA, NodeB} \subseteq ValidNodeSet
                 /\ edgeText = <<"A", " ", "B", "\n", "B", " ", "A">> ) =>
                      /\ validEdges = << <<NodeA, NodeB, 1>> >>
                      /\ edgeErrors = << [line |-> 1, reason |-> "Duplicate edge"] >>
        /\ \A i \in NonBlank(P) :
               ( /\ PassesEarlierChecks(P, i) /\ ~WeightFails(P[i])
                 /\ P[i][1] = P[i][2]
                 /\ \E j \in A : j < i /\ P[j][1] = P[i][1] /\ P[j][2] = P[i][1] )
               => DuplicateOnLine(i)

\* Undirected mode: 'B A' after 'A B' is a duplicate.
C10_Witness ==
    /\ EdgesValidated
    /\ ~isDirected
    /\ \E i \in NonBlank(EdgeParts) : \E j \in AdmittedLines(EdgeParts) :
          /\ j < i
          /\ PassesEarlierChecks(EdgeParts, i)
          /\ EdgeParts[j][1] = EdgeParts[i][2]
          /\ EdgeParts[j][2] = EdgeParts[i][1]
          /\ EdgeParts[i][1] # EdgeParts[i][2]
          /\ DuplicateOnLine(i)

----------------------------------------------------------------------------
(* Claims on formatEdges, checked under SpecParse *)

\* updateGraphFromInput has returned.
Done == pc = "done"

\* Some line of the edge text is the two names u and v, in this order.
HasLine(P, u, v) == \E i \in 1..Len(P) : P[i] = <<u, v>>

\* The links that join a and b, in either direction.
LinksBetween(a, b) ==
    {k \in 1..Len(links) : {links[k].source, links[k].target} = {a, b}}

\* The two links of a and b are curved, one with direction 1 and one with
\* direction -1.
CurvedPair(a, b) ==
    LET L == LinksBetween(a, b) IN
    /\ Cardinality(L) = 2
    /\ \A k \in L : links[k].curved
    /\ {links[k].direction : k \in L} = {1, -1}

\* The valid nodes a # b of which the edge text has the line 'a b' and the
\* line 'b a'.
BothWays(P) ==
    {ab \in ValidNodeSet \X ValidNodeSet :
        ab[1] # ab[2] /\ HasLine(P, ab[1], ab[2]) /\ HasLine(P, ab[2], ab[1])}

\* C11 as stated: in undirected mode an edge text with the lines 'A B' and
\* 'B A' (A, B valid and different) gives two links between A and B, both
\* curved, with the directions +1 and -1.
C11_UndirectedReversePair ==
    Done /\ ~isDirected => \A ab \in BothWays(EdgeParts) : CurvedPair(ab[1], ab[2])

\* C11 amended: in directed mode an edge text with the lines 'A B' and
\* 'B A' (A, B valid and different) gives two links between A and B, both
\* curved, with the directions +1 and -1.
C11_DirectedReversePair ==
    Done /\ isDirected => \A ab \in BothWays(EdgeParts) : CurvedPair(ab[1], ab[2])

\* Directed mode, both lines in the text, after a line that is in error.
C11_Witness ==
    /\ Done
    /\ isDirected
    /\ BothWays(EdgeParts) # {}
    /\ edgeErrors # <<>>

\* C12: in directed mode a link (s, t) with s # t is curved exactly when
\* the link (t, s) is among the links; of the two the earlier one has
\* direction -1 and the later one +1; every other link has curved = false
\* and direction 0, so curved holds exactly when the direction is not 0;
\* the links are the valid edges, one for one and in their order.
C12_CurvedIffReverse ==
    Done /\ isDirected =>
        /\ Len(links) = Len(validEdges)
        /\ \A k \in 1..Len(links) :
             LET l == links[k]
                 R == {j \in 1..Len(links) :
                          links[j].source = l.target /\ links[j].target = l.source}
             IN
             /\ <<l.source, l.target, l.value>> = validEdges[k]
             /\ l.curved <=> (l.source # l.target /\ R # {})
             /\ l.curved <=> l.direction # 0
             /\ l.curved => \A j \in R : l.direction = IF k < j THEN -1 ELSE 1

\* Directed mode: a pair of reverse links and a link that is not curved.
C12_Witness ==
    /\ Done
    /\ isDirected
    /\ \E k, j \in 1..Len(links) :
          /\ k < j
          /\ links[k].curved /\ links[k].direction = -1
          /\ links[j].source = links[k].target /\ links[j].target = links[k].source
    /\ \E k \in 1..Len(links) : ~links[k].curved

SingleLoopText(u) == u \o <<" ">> \o u

\* C13: in either mode a link whose source is its target has curved =
\* false and direction 0, and the edge text 'u u' alone, u a valid node,
\* gives that one link and no error.
C13_SelfLoopsAreStraight ==
    Done =>
        /\ \A k \in 1..Len(links) :
               links[k].source = links[k].target =>
                   ~links[k].curved /\ links[k].direction = 0
        /\ \A u \in ValidNodeSet :
               edgeText = SingleLoopText(u) =>
                   /\ links = << [source |-> u, target |-> u, value |-> 1,
                                  curved |-> FALSE, direction |-> 0] >>
                   /\ edgeErrors = <<>>

\* A self-loop next to a curved pair.
C13_Witness ==
    /\ Done
    /\ \E k \in 1..Len(links) : links[k].source = links[k].target
    /\ \E k \in 1..Len(links) : links[k].curved


----------------------------------------------------------------------------
(* Claims on the weights and on unknown names, checked under SpecParse *)

\* The weight of a line with parts p: the value of its third part, 1
\* without one.
WeightOf(p) == IF Len(p) >= 3 THEN Number(p[3]).value ELSE 1

\* C16: the weight of every admitted edge, and the value of its link, is
\* the number the third part of its line reads as, and 1 when the line has
\* no third part; in weighted mode a line that passes the earlier checks
\* and whose third part is no number gives no edge and the one error
\* 'Invalid weight (must be a number)'; in unweighted mode a line with a
\* third part fails the arity check, and every link has the value 1.
C16_Weights ==
    /\ EdgesValidated =>
          LET P == EdgeParts
              A == AdmittedLines(P)
          IN
          /\ \A i \in A : validEdges[Rank(A, i)][3] = WeightOf(P[i])
          /\ \A i \in NonBlank(P) :
                 /\ ( isWeighted /\ PassesEarlierChecks(P, i) /\ WeightFails(P[i]) ) =>
                        /\ i \notin A
                        /\ ReasonsOnLine(i) = {"Invalid weight (must be a number)"}
                        /\ Cardinality(ErrorsOnLine(edgeErrors, i - 1)) = 1
                 /\ ( ~isWeighted /\ Len(P[i]) >= 3 ) =>
                        ReasonsOnLine(i) = {"Edge must have exactly 2 nodes"}
    /\ Done =>
          /\ \A k \in 1..Len(links) : links[k].value = validEdges[k][3]
          /\ ~isWeighted => \A k \in 1..Len(links) : links[k].value = 1

\* Weighted mode: a link of value 5 next to a link of value 1 and a line
\* whose weight is no number.
C16_Witness ==
    /\ Done
    /\ isWeighted
    /\ \E k, l \in 1..Len(links) : links[k].value = 5 /\ links[l].value = 1
    /\ \E k \in 1..Len(edgeErrors) :
          edgeErrors[k].reason = "Invalid weight (must be a number)"

\* The names the node panel reported an error on: the trimmed node lines
\* that are no identifier or repeat an identifier.
FailedNodeNames ==
    {NodeLines[j] : j \in {i \in 1..Len(NodeLines) :
                              NodeLines[i] # <<>> /\ i \notin FirstLines}}

\* The errors of the node panel are those of the node lines, one for each
\* non-blank line that is no first occurrence: the edge lines add none.
NodePanelUntouched ==
    /\ Len(nodeErrors) = Cardinality({i \in 1..Len(NodeLines) :
                                         NodeLines[i] # <<>> /\ i \notin FirstLines})
    /\ \A k \in 1..Len(nodeErrors) :
           /\ nodeErrors[k].line + 1 \in 1..Len(NodeLines)
           /\ NodeLines[nodeErrors[k].line + 1] # <<>>
           /\ nodeErrors[k].line + 1 \notin FirstLines

\* C17 as stated: an edge line (of the right arity) that names a name whose
\* node line is in error, as an invalid or as a duplicate node name, is
\* reported as 'Node in edge does not exist', and the node panel gets no
\* error from it.
C17_FailedNameIsUnknownNode ==
    EdgesValidated =>
        LET P == EdgeParts IN
        /\ \A i \in NonBlank(P) :
               ( ~ArityFails(P[i]) /\ {P[i][1], P[i][2]} \cap FailedNodeNames # {} )
               => ReasonsOnLine(i) = {"Node in edge does not exist"}
        /\ NodePanelUntouched

\* C17 amended: an edge line of the right arity that names a name that is
\* no valid node is reported in the edge panel, as 'Invalid node name in
\* edge' when a name of the line is no identifier and as 'Node in edge does
\* not exist' otherwise, and the node panel gets no error from it; a name
\* whose node line is in error as a duplicate is a valid node by its first
\* line, and an edge line is not in error for naming it.
C17_NameOutsideValidNodes ==
    EdgesValidated =>
        LET P == EdgeParts IN
        /\ \A i \in NonBlank(P) :
               ~ArityFails(P[i]) =>
                   /\ ExistenceFails(P[i]) =>
                          ReasonsOnLine(i) =
                              IF NameFails(P[i]) THEN {"Invalid node name in edge"}
                              ELSE {"Node in edge does not exist"}
                   /\ ~ExistenceFails(P[i]) =>
                          ReasonsOnLine(i) \cap {"Invalid node name in edge",
                                                 "Node in edge does not exist"} = {}
        /\ NodePanelUntouched

\* One edge text with a line that names the invalid node name, a line that
\* names an identifier the node text does not have, and an admitted line
\* that names the identifier the node text has twice.
C17_Witness ==
    /\ EdgesValidated
    /\ LET P == EdgeParts
           A == AdmittedLines(P)
           I == {i \in NonBlank(P) : ~ArityFails(P[i])}
       IN
       /\ \E i \in I : /\ \E t \in {P[i][1], P[i][2]} :
                             t \in FailedNodeNames /\ ~ValidRegexTest(t)
                       /\ ReasonsOnLine(i) = {"Invalid node name in edge"}
       /\ \E i \in I : /\ ~NameFails(P[i])
                       /\ ReasonsOnLine(i) = {"Node in edge does not exist"}
       /\ \E i \in A : \E t \in {P[i][1], P[i][2]} :
                           t \in FailedNodeNames /\ t \in ValidNodeSet

----------------------------------------------------------------------------
(* Claims on the grouping, checked under Spec *)

\* assignGroups has returned.
GroupsAssigned == pc \in {"formatEdges", "assignGroupColor", "isGraphStructureChanged",
                         "renderGraph", "done"}

\* Some valid edge joins a and b, in either direction.
Adjacent(a, b) ==
    \E k \in 1..Len(validEdges) :
        {validEdges[k][1], validEdges[k][2]} = {a, b}

\* The valid nodes a path of valid edges reaches from the nodes of S.
RECURSIVE Reached(_)
Reached(S) ==
    LET T == S \cup {b \in ValidNodeSet : \E a \in S : Adjacent(a, b)}
    IN IF T = S THEN S ELSE Reached(T)

GroupOf(a) == (CHOOSE k \in 1..Len(groupedNodes) : groupedNodes[k].id = a)

\* buildAdjacencyList has just returned.
GraphBuilt == pc = "assignGroups"

\* How often entry e occurs in a neighbor list.
Occurrences(list, e) == Cardinality({j \in 1..Len(list) : list[j] = e})

\* The entries the valid edges give to the list of node x: {v, w} for every
\* edge (x, v, w), and in undirected mode {u, w} for every edge (u, x, w).
EntriesFor(x) ==
    LET out == {k \in 1..Len(validEdges) : validEdges[k][1] = x}
        in  == {k \in 1..Len(validEdges) : validEdges[k][2] = x}
    IN [out |-> out, in |-> IF isDirected THEN {} ELSE in]

OutEntry(k) == [node |-> validEdges[k][2], weight |-> validEdges[k][3]]
InEntry(k) == [node |-> validEdges[k][1], weight |-> validEdges[k][3]]

RECURSIVE TotalEntries(_, _)
TotalEntries(g, i) ==
    IF i > Len(validNodes) THEN 0
    ELSE Len(Get(g, validNodes[i])) + TotalEntries(g, i + 1)

\* C14: the keys of the adjacency list are exactly the valid nodes; the
\* list of a node holds {v, w} for every valid edge (u, v, w) of which it is
\* u and, in undirected mode only, {u, w} for every one of which it is v,
\* and nothing else: a node no edge touches has the empty list, and the
\* lists hold |validEdges| entries in directed mode and 2 * |validEdges| in
\* undirected mode.
C14_AdjacencyList ==
    GraphBuilt =>
        /\ DOMAIN graph.own = ValidNodeSet
        /\ \A x \in ValidNodeSet :
             LET list == Get(graph, x)
                 E    == EntriesFor(x)
                 all  == {OutEntry(k) : k \in E.out} \cup {InEntry(k) : k \in E.in}
             IN
             /\ \A j \in 1..Len(list) : list[j] \in all
             /\ \A e \in all :
                    Occurrences(list, e) =
                        Cardinality({k \in E.out : OutEntry(k) = e})
                        + Cardinality({k \in E.in : InEntry(k) = e})
        /\ TotalEntries(graph, 1) =
               IF isDirected THEN Len(validEdges) ELSE 2 * Len(validEdges)

\* C1: after a pipeline run two valid nodes have the same group if and only
\* if a path of valid edges joins them, the direction of the edges ignored.
C1_GroupsAreComponents ==
    GroupsAssigned =>
        \A a, b \in ValidNodeSet :
            groupedNodes[GroupOf(a)].group = groupedNodes[GroupOf(b)].group
                <=> b \in Reached({a})

\* allGroups and groupDisplayMap are set.
GroupsDisplayed == pc \in {"isGraphStructureChanged", "renderGraph", "done"}

\* The place in groupedNodes of the first node that has group gr.
FirstNodeWith(gr) ==
    CHOOSE k \in 1..Len(groupedNodes) :
        /\ groupedNodes[k].group = gr
        /\ \A j \in 1..(k - 1) : groupedNodes[j].group # gr

\* The connected components of the valid nodes.
Components == {Reached({a}) : a \in ValidNodeSet}

\* C19: allGroups lists every group of the nodes once, in the order of
\* the first node of each group in validNodes; groupDisplayMap maps the
\* i-th group of allGroups to i and has no other key: it is a bijection
\* from the groups onto 1..k, k the number of connected components.
C19_DisplayGroups ==
    GroupsDisplayed =>
        LET k == Len(allGroups) IN
        /\ {allGroups[i] : i \in 1..k} =
               {groupedNodes[j].group : j \in 1..Len(groupedNodes)}
        /\ \A i, j \in 1..k :
               i < j => /\ allGroups[i] # allGroups[j]
                        /\ FirstNodeWith(allGroups[i]) < FirstNodeWith(allGroups[j])
        /\ [j \in 1..Len(groupedNodes) |-> groupedNodes[j].id] = validNodes
        /\ \A i \in 1..k :
               Get(groupDisplayMap, ToPropertyKey(allGroups[i])) = i
        /\ Cardinality(DOMAIN groupDisplayMap.own) = k
        /\ k = Cardinality(Components)

----------------------------------------------------------------------------
(* Claims on the cycles, checked under SpecCycles *)

\* graphData is complete and renderGraph is about to be called.
ModelBuilt == pc = "renderGraph"

IdsOf(nodes) == {nodes[k].id : k \in 1..Len(nodes)}

\* The unordered pairs of ends of the new links, and of the links of
\* graphState, whose ends are node objects.
NewPairs == {{links[k].source, links[k].target} : k \in 1..Len(links)}
OldPairs == {{currentLinks[k].source.id, currentLinks[k].target.id} :
                 k \in 1..Len(currentLinks)}

\* The new model has other node ids or other unordered pairs than the model
\* of graphState.
ModelsDiffer ==
    IdsOf(groupedNodes) # IdsOf(currentNodes) \/ NewPairs # OldPairs

\* The links of graphState with the ids in place of the node objects.
CurrentLinkRecords ==
    [k \in 1..Len(currentLinks) |->
        [currentLinks[k] EXCEPT !.source = @.id, !.target = @.id]]

\* C15: for the rendered model of the cycle before and the new model,
\* isGraphStructureChanged returns true exactly when the sets of node ids
\* differ or the sets of unordered pairs of ends differ; other weights,
\* curvature, directions or another number of links over the same pairs
\* give false.  (shouldZoom |= the result: a difference sets shouldZoom.)
C15_StructureChanged ==
    /\ pc = "isGraphStructureChanged" =>
          ( isGraphStructureChanged(groupedNodes, links, currentNodes, currentLinks)
              <=> ModelsDiffer )
    /\ ModelBuilt => (ModelsDiffer => shouldZoom)

\* A cycle that finds no change of structure although the links are not
\* those of the cycle before: their number differs, or their weights or
\* directions do.
C15_Witness ==
    /\ ModelBuilt
    /\ ~shouldZoom
    /\ Len(links) # Len(currentLinks)
    /\ links # <<>>

\* C18: the model (ids, groups, links) and the two error lists of a cycle
\* are those the node text, the edge text and the two flags determine,
\* whatever the cycles before have left: the model of graphState, the
\* colours, the locals of the call before.  Two cycles on the same texts
\* and flags therefore agree, the second of two in a row included.
C18_ModelDependsOnInputsOnly ==
    ModelBuilt =>
        LET n == validateNodes(nodeText)
            e == validateGraphEdges(edgeText, n.validNodes, isDirected, isWeighted)
            g == assignGroups(n.validNodes,
                              buildAdjacencyList(n.validNodes, e.validEdges, isDirected))
        IN
        /\ nodeErrors = n.nodeErrors
        /\ edgeErrors = e.edgeErrors
        /\ groupedNodes = g.result
        /\ links = formatEdges(e.validEdges)

\* A cycle after others: graphState holds a model with other nodes and
\* links, and colours have been handed out.
C18_Witness ==
    /\ ModelBuilt
    /\ colorCounter >= 2
    /\ currentLinks # <<>>
    /\ IdsOf(groupedNodes) # IdsOf(currentNodes)
    /\ links # CurrentLinkRecords

\* The calls of updateGraphFromInput that parse and compare.
ParsingSteps ==
    {"validateNodes", "validateGraphEdges", "buildAdjacencyList", "assignGroups",
     "formatEdges", "assignGroupColor", "isGraphStructureChanged"}

\* C20: the parsing and the comparison leave graphState.currentNodes and
\* currentLinks as they are, and renderGraph leaves the node and link
\* records of the model handed to it as they are: the simulation is bound
\* to copies.
C20_FrameEffects ==
    [][ /\ pc \in ParsingSteps => UNCHANGED <<currentNodes, currentLinks>>
        /\ pc = "renderGraph" => UNCHANGED <<groupedNodes, links>> ]_vars

\* After a rendering the links of graphState have node objects as ends and
\* the links of the model still have the ids; a next cycle is parsing while
\* graphState holds that model.
C20_Witness ==
    /\ pc = "formatEdges"
    /\ currentLinks # <<>>
    /\ links # <<>>
    /\ \A k \in 1..Len(currentLinks) :
           /\ currentLinks[k].source \in {currentNodes[j] : j \in 1..Len(currentNodes)}
           /\ currentLinks[k].source.id = links[k].source

----------------------------------------------------------------------------
(* Claims on the union-find of assignGroups, checked under Spec *)

\* The calls union(u, neighbor.node) of assignGroups, in their order.
RECURSIVE UnionCallsOf(_, _, _)
UnionCallsOf(u, neighbors, j) ==
    IF j > Len(neighbors) THEN <<>>
    ELSE <<(<<u, neighbors[j].node>>)>> \o UnionCallsOf(u, neighbors, j + 1)

RECURSIVE UnionCallsFrom(_)
UnionCallsFrom(i) ==
    IF i > Len(validNodes) THEN <<>>
    ELSE UnionCallsOf(validNodes[i], Get(graph, validNodes[i]), 1)
             \o UnionCallsFrom(i + 1)

\* parent and size before the first union and after every union, up to the
\* one that throws.
RECURSIVE SetsAfter(_, _, _)
SetsAfter(calls, i, trace) ==
    IF i > Len(calls) \/ trace[Len(trace)].threw THEN trace
    ELSE SetsAfter(calls, i + 1,
                   Append(trace, union(trace[Len(trace)], calls[i][1], calls[i][2])))

UnionCalls == UnionCallsFrom(1)

UnionTrace ==
    SetsAfter(UnionCalls, 1,
              << InitSets(validNodes, 1, [parent |-> EmptyObject, size |-> EmptyObject,
                                          threw |-> FALSE]) >>)

\* The root of x: the value the parent links lead to from x, read without
\* writing; Undefined when they lead to no value that is its own parent
\* within as many links as there are nodes.
RECURSIVE RootWalk(_, _, _)
RootWalk(parent, x, fuel) ==
    LET next == Get(parent, ToPropertyKey(x)) IN
    IF next = x THEN x
    ELSE IF fuel = 0 THEN Undefined
    ELSE RootWalk(parent, next, fuel - 1)

RootOf(parent, x) == RootWalk(parent, x, Len(validNodes))

\* The valid nodes of the set of root r.
SetOf(parent, r) == {x \in ValidNodeSet : RootOf(parent, x) = r}

\* The root the claim gives to the union of the sets of the roots ru # rv,
\* ru the root of the first argument.
WinnerOf(parent, ru, rv) ==
    IF Cardinality(SetOf(parent, rv)) > Cardinality(SetOf(parent, ru)) THEN rv ELSE ru

\* Every root is a valid node and size holds, for it, the number of the
\* nodes of its set.
SizesAreCounts(st) ==
    \A x \in ValidNodeSet :
        LET r == RootOf(st.parent, x) IN
        /\ r \in ValidNodeSet
        /\ SizeOf(st.size, r) = Num(Cardinality(SetOf(st.parent, r)))

\* The i-th union has merged as the claim says.
UnionAsClaimed(i) ==
    LET s  == UnionTrace[i]
        t  == UnionTrace[i + 1]
        ru == RootOf(s.parent, UnionCalls[i][1])
        rv == RootOf(s.parent, UnionCalls[i][2])
    IN
    /\ ~t.threw
    /\ \A x \in ValidNodeSet :
           RootOf(t.parent, x) =
               IF ru # rv /\ RootOf(s.parent, x) \in {ru, rv}
               THEN WinnerOf(s.parent, ru, rv)
               ELSE RootOf(s.parent, x)
    /\ SizesAreCounts(t)

\* find(u) on the sets st returns the root of u and leaves every root as it
\* is.
FindKeepsRoots(st) ==
    \A u \in ValidNodeSet :
        /\ ~Overflows(st.parent, u, {})
        /\ LET f == find(st.parent, u) IN
           /\ f.root = RootOf(st.parent, u)
           /\ \A x \in ValidNodeSet : RootOf(f.parent, x) = RootOf(st.parent, x)

\* C24: in assignGroups every union of two different sets makes the root of
\* the strictly larger set the root of the merged set, and on equal sizes
\* the root of the set of the first argument; after every union size[r] of
\* every root r is the number of nodes whose root is r; and find, with its
\* path compression, leaves the root of every node as it is.
C24_UnionBySize ==
    GraphBuilt =>
        /\ \A i \in 1..(Len(UnionTrace) - 1) : UnionAsClaimed(i)
        /\ \A i \in 1..Len(UnionTrace) :
               ~UnionTrace[i].threw => FindKeepsRoots(UnionTrace[i])

\* C25: assignGroups gives every valid node exactly one record, in the
\* order of validNodes; the group of a record is the id of a valid node of
\* the connected component of the record's node, and the group of that node
\* is itself.
C25_GroupIsRootId ==
    GroupsAssigned =>
        /\ [k \in 1..Len(groupedNodes) |-> groupedNodes[k].id] = validNodes
        /\ \A k \in 1..Len(groupedNodes) :
               LET n == groupedNodes[k] IN
               /\ n.group \in ValidNodeSet
               /\ n.group \in Reached({n.id})
               /\ groupedNodes[GroupOf(n.group)].group = n.group

----------------------------------------------------------------------------
(* Claims on the links of the two modes, checked under SpecParse *)

\* C27: in undirected mode no link of the pipeline is curved: every link
\* has curved = false and direction 0, and no two links join the same
\* unordered pair of nodes.
C27_UndirectedNeverCurved ==
    Done /\ ~isDirected =>
        /\ \A k \in 1..Len(links) : ~links[k].curved /\ links[k].direction = 0
        /\ \A j, k \in 1..Len(links) :
               j # k => {links[j].source, links[j].target}
                            # {links[k].source, links[k].target}

\* Undirected mode, an edge text with a line and its reverse, and a link.
C27_Witness ==
    /\ Done
    /\ ~isDirected
    /\ BothWays(EdgeParts) # {}
    /\ links # <<>>

\* C28: after a pipeline run, in either mode, no two links have the same
\* ordered pair (source, target), and no two links of the simulation have
\* the same key 'source-target'.
C28_UniqueLinkKeys ==
    Done =>
        /\ \A j, k \in 1..Len(links) :
               j # k => <<links[j].source, links[j].target>>
                            # <<links[k].source, links[k].target>>
        /\ Len(currentLinks) = Len(links)
        /\ \A j, k \in 1..Len(currentLinks) :
               j # k => LinkKey(currentLinks[j]) # LinkKey(currentLinks[k])

\* An edge text that repeats a line, rendered with two links or more.
C28_Witness ==
    /\ Done
    /\ Len(currentLinks) >= 2
    /\ \E i, j \in NonBlank(EdgeParts) :
          i # j /\ EdgeParts[i] = EdgeParts[j] /\ i \in AdmittedLines(EdgeParts)

----------------------------------------------------------------------------
(* Claim on the neighbour sets of the highlight, checked under Spec *)

\* adjacency.get(x) || new Set()
NeighborsOf(adj, x) == IF x \in DOMAIN adj THEN adj[x] ELSE {}

\* The ids of the entries of a neighbor list of buildAdjacencyList.
ListedNodes(list) == {list[j].node : j \in 1..Len(list)}

\* The nodes the valid edges lead to from x, and those they lead from to x.
OutNeighbors(x) ==
    {validEdges[k][2] : k \in {j \in 1..Len(validEdges) : validEdges[j][1] = x}}
InNeighbors(x) ==
    {validEdges[k][1] : k \in {j \in 1..Len(validEdges) : validEdges[j][2] = x}}

\* C26: for the links of a run and in both modes, the neighbour set the
\* highlight reads for a node (a missing key read as the empty set) holds
\* the ids the neighbor list of buildAdjacencyList holds for that node:
\* the nodes its edges lead to in directed mode, and those on either side
\* of its edges in undirected mode.
C26_NeighborSetsAgree ==
    Done =>
        \A x \in ValidNodeSet :
            /\ NeighborsOf(adjacency, x) = ListedNodes(Get(graph, x))
            /\ NeighborsOf(adjacency, x) =
                   IF isDirected THEN OutNeighbors(x)
                   ELSE OutNeighbors(x) \cup InNeighbors(x)

\* Directed mode: a node edges lead to and none leads from, which is no key
\* of the map; and a node with a neighbour.
C26_Witness ==
    /\ Done
    /\ isDirected
    /\ \E x \in ValidNodeSet : InNeighbors(x) # {} /\ x \notin DOMAIN adjacency
    /\ \E x \in ValidNodeSet : NeighborsOf(adjacency, x) # {}

----------------------------------------------------------------------------
(* Claims on the restart, the panels, the timers, the colours and the load, *)
(* checked under SpecCycles; the colours under Spec as well                 *)

PastErrorHandling ==
    pc \in {"buildAdjacencyList", "assignGroups", "formatEdges", "assignGroupColor",
            "isGraphStructureChanged", "renderGraph"}

ElementsOf(seq) == {seq[k] : k \in 1..Len(seq)}

\* The panel shows the errors as the claim says.
PanelShows(panel, errors) ==
    /\ Len(panel.markerArray) = Len(errors)
    /\ Cardinality(ElementsOf(panel.markerArray)) = Len(errors)
    /\ DOMAIN panel.sessionMarkers = ElementsOf(panel.markerArray)
    /\ \A k \in 1..Len(errors) :
           panel.sessionMarkers[panel.markerArray[k]] = errors[k].line
    /\ IF errors = <<>>
       THEN panel.annotations = <<>> /\ panel.message = NoMessage
       ELSE LET first == CHOOSE e \in ElementsOf(errors) :
                             \A f \in ElementsOf(errors) : e.line <= f.line
            IN /\ \A f \in ElementsOf(errors) : f # first => first.line < f.line
               /\ Len(panel.annotations) = 1
               /\ panel.annotations[1].row = first.line
               /\ panel.annotations[1].text = first.reason
               /\ panel.message = [line |-> first.line + 1, reason |-> first.reason]

\* C23: after the error handling of every cycle each panel has exactly one
\* marker per error of the cycle, on the line of the error, and no marker
\* of a cycle before; the annotation and the message are those of the
\* error of the lowest line, the first of the list, the message with
\* line + 1; without errors there is no annotation and no message.
C23_PanelsShowErrors ==
    PastErrorHandling =>
        /\ PanelShows(nodePanel, nodeErrors)
        /\ PanelShows(edgePanel, edgeErrors)

\* A cycle after a rendering, with two errors in each panel.
C23_Witness ==
    /\ PastErrorHandling
    /\ currentNodes # <<>>
    /\ Len(nodeErrors) >= 2
    /\ Len(edgeErrors) >= 2

\* The model renderGraph has published last is the model of the texts the
\* editors hold.
PublishedIsCurrent ==
    LET n == validateNodes(nodeText)
        e == validateGraphEdges(edgeText, n.validNodes, isDirected, isWeighted)
    IN /\ [k \in 1..Len(currentNodes) |-> currentNodes[k].id] = n.validNodes
       /\ CurrentLinkRecords = formatEdges(e.validEdges)

\* C22: once the timers of the change events have fired and nothing is
\* running, the rendered model is the model of the text the editors hold;
\* and no editor has more than one timer pending.
C22_LatestTextWins ==
    /\ nodeInput.pending <= 1
    /\ edgeInput.pending <= 1
    /\ (Idle /\ nodeInput.pending = 0 /\ edgeInput.pending = 0) => PublishedIsCurrent

\* The keys of the groups of the model.
GroupKeys == {ToPropertyKey(groupedNodes[k].group) : k \in 1..Len(groupedNodes)}

\* C29: after every cycle the keys of groupColorMap are exactly the groups
\* of the model, and a group that has a colour before and after a cycle
\* has the same colour.
C29_ColoursOfCurrentGroups ==
    [][ /\ pc' = "done" => DOMAIN groupColorMap'.own = GroupKeys'
        /\ \A k \in (DOMAIN groupColorMap.own) \cap (DOMAIN groupColorMap'.own) :
               pc # "load" => groupColorMap'.own[k] = groupColorMap.own[k] ]_vars

\* C30: while the callback of the load runs no timer is pending, the
\* seeding of the editors having called no handler; and once it has ended
\* each editor has exactly one change listener.
C30_LoadDetachesHandlers ==
    /\ loading => nodeInput.pending = 0 /\ edgeInput.pending = 0
    /\ (pc # "load" /\ ~loading) =>
           Len(nodeInput.listeners) = 1 /\ Len(edgeInput.listeners) = 1

=============================================================================
